---- MODULE Spec2Model ----
(***************************************************************************)
(* Travel checklist bot (rdudov/travel_checklist): the trip conversation   *)
(* of src/main.py and src/handlers.py, the weather service, the checklist  *)
(* generator and the web viewer over the shared store.                     *)
(*                                                                         *)
(* Texts are sequences of Unicode code points, so that str.lower(),        *)
(* substring tests, regular expressions and list.sort() are computed as    *)
(* Python computes them.  Temperatures, wind speeds and precipitation are  *)
(* integers in tenths of a unit (the service rounds them to one decimal).  *)
(***************************************************************************)
EXTENDS Integers, Sequences, FiniteSets, TLC

VARIABLES
    now,        \* datetime.now(), in ticks (TicksPerDay ticks per calendar day)
    conv,       \* trip_conversation state of each user (ConversationHandler)
    user_data,  \* context.user_data of each user: a dict, key -> value
    last,       \* the update handled last: who sent what, which handler ran, its reply
    db,         \* the database: the users, checklists and checklist_items tables
    gen,        \* the call of generate_travel_checklist under test and its result
    pc          \* where the persistence block of handle_trip_type stands

vars == <<now, conv, user_data, last, db, gen, pc>>

\* what the trip conversation does not touch before handle_trip_type runs
rest == <<db, gen, pc>>

----------------------------------------------------------------------------
(* Bounds of the model *)

\* ticks of the clock per calendar day (tick 0 of a day is midnight)
TicksPerDay == 2

\* how many ticks the clock advances in a run
MaxTicks == 2

\* telegram identities of the users that talk to the bot
Users == {1, 2}

----------------------------------------------------------------------------
(* Conversation states: constants.py *)

WAITING_DESTINATION == "WAITING_DESTINATION"

WAITING_START_DATE == "WAITING_START_DATE"

WAITING_DURATION == "WAITING_DURATION"

WAITING_TRIP_TYPE == "WAITING_TRIP_TYPE"

\* ConversationHandler.END: the conversation key holds no state
END == "END"

ConvStates == {END, WAITING_DESTINATION, WAITING_START_DATE, WAITING_DURATION,
               WAITING_TRIP_TYPE}

----------------------------------------------------------------------------
(* Python dict and str helpers *)

EmptyDict == <<>>

Has(d, k) == k \in DOMAIN d

Put(d, k, v) == [x \in (DOMAIN d) \cup {k} |-> IF x = k THEN v ELSE d[x]]

IsDigit(c) == c \in 48..57

DigitVal(c) == c - 48

\* str.strip(): leading and trailing whitespace removed
IsSpace(c) == c \in {9, 10, 11, 12, 13, 32}

RECURSIVE LStrip(_)
LStrip(t) == IF t # <<>> /\ IsSpace(Head(t)) THEN LStrip(Tail(t)) ELSE t

RECURSIVE RStrip(_)
RStrip(t) ==
    IF t # <<>> /\ IsSpace(t[Len(t)]) THEN RStrip(SubSeq(t, 1, Len(t) - 1)) ELSE t

Strip(t) == RStrip(LStrip(t))

----------------------------------------------------------------------------
(* datetime: proleptic Gregorian ordinals, as datetime.toordinal() *)

IsLeap(y) == (y % 4 = 0) /\ ((y % 100 # 0) \/ (y % 400 = 0))

DaysInMonth(y, m) ==
    IF m = 2 THEN (IF IsLeap(y) THEN 29 ELSE 28)
    ELSE IF m \in {4, 6, 9, 11} THEN 30 ELSE 31

DaysBeforeYear(y) ==
    365 * (y - 1) + ((y - 1) \div 4) - ((y - 1) \div 100) + ((y - 1) \div 400)

RECURSIVE DaysBeforeMonth(_, _)
DaysBeforeMonth(y, m) ==
    IF m = 1 THEN 0 ELSE DaysBeforeMonth(y, m - 1) + DaysInMonth(y, m - 1)

Ordinal(y, m, d) == DaysBeforeYear(y) + DaysBeforeMonth(y, m) + d

\* a datetime at midnight of the day with this ordinal, in ticks
Midnight(ord) == ord * TicksPerDay

\* re.match(r"^\d{2}\.\d{2}\.\d{4}$", date_text): "$" also matches before a
\* trailing newline
ReMatchDate(t) ==
    /\ Len(t) = 10 \/ (Len(t) = 11 /\ t[11] = 10)
    /\ \A i \in {1, 2, 4, 5, 7, 8, 9, 10} : IsDigit(t[i])
    /\ t[3] = 46
    /\ t[6] = 46

\* datetime.strptime(date_text, "%d.%m.%Y") of a text that matched the pattern:
\* ValueError (ok = FALSE) on unconverted data, a day or month the format does not
\* match, year 0, or a day the month does not have
Strptime(t) ==
    LET d == 10 * DigitVal(t[1]) + DigitVal(t[2])
        m == 10 * DigitVal(t[4]) + DigitVal(t[5])
        y == 1000 * DigitVal(t[7]) + 100 * DigitVal(t[8])
             + 10 * DigitVal(t[9]) + DigitVal(t[10])
    IN  IF /\ Len(t) = 10
           /\ d \in 1..31
           /\ m \in 1..12
           /\ y >= 1
           /\ d <= DaysInMonth(y, m)
        THEN [ok |-> TRUE, at |-> Midnight(Ordinal(y, m, d))]
        ELSE [ok |-> FALSE, at |-> 0]

\* "if start_date < datetime.now()": the date is refused
DateRefused(start_date, clock) == start_date < clock

----------------------------------------------------------------------------
(* int(text.strip()) *)

RECURSIVE DigitsValue(_, _)
\* value of a run of digits with single underscores between digits; -1 if malformed
DigitsValue(t, acc) ==
    IF t = <<>> THEN acc
    ELSE IF IsDigit(Head(t)) THEN DigitsValue(Tail(t), 10 * acc + DigitVal(Head(t)))
    ELSE IF Head(t) = 95 /\ Len(t) >= 2 /\ IsDigit(t[2]) THEN DigitsValue(Tail(t), acc)
    ELSE -1

ParseInt(text) ==
    LET s == Strip(text)
        neg == s # <<>> /\ Head(s) = 45
        body == IF s # <<>> /\ Head(s) \in {43, 45} THEN Tail(s) ELSE s
        v == IF body # <<>> /\ IsDigit(Head(body)) THEN DigitsValue(body, 0) ELSE -1
    IN  IF v < 0 THEN [ok |-> FALSE, val |-> 0]
        ELSE [ok |-> TRUE, val |-> IF neg THEN 0 - v ELSE v]

\* a variant of the check that refuses negatives only
DurationRefusedBelowZero(duration) == duration < 0

\* "if duration <= 0: raise ValueError"
DurationRefused(duration) == duration <= 0

----------------------------------------------------------------------------
(* Sequence helpers *)

RECURSIVE SumSeq(_)
SumSeq(s) == IF s = <<>> THEN 0 ELSE Head(s) + SumSeq(Tail(s))

RECURSIVE MinSeq(_)
MinSeq(s) ==
    IF Len(s) = 1 THEN s[1]
    ELSE LET r == MinSeq(Tail(s)) IN IF Head(s) < r THEN Head(s) ELSE r

RECURSIVE MaxSeq(_)
MaxSeq(s) ==
    IF Len(s) = 1 THEN s[1]
    ELSE LET r == MaxSeq(Tail(s)) IN IF Head(s) > r THEN Head(s) ELSE r

RECURSIVE SortedInts(_)
\* sorted(keys) of a set of integers
SortedInts(S) ==
    IF S = {} THEN <<>>
    ELSE LET m == CHOOSE x \in S : \A y \in S : x <= y
         IN  <<m>> \o SortedInts(S \ {m})

\* a Python value that may be None: {} is None, {v} is v
None == {}

Some(v) == {v}

----------------------------------------------------------------------------
(* services/weather.py: WeatherService *)

\* the "days" default of get_weather_forecast
DefaultDays == 7

\* the "rain" field of a sample that carries neither 'rain' nor 'snow'
Missing == -1

\* line 149: item.get('rain', {}).get('3h', 0) + item.get('snow', {}).get('3h', 0)
PrecipitationOf(sample) == IF sample.rain = Missing THEN 0 ELSE sample.rain

\* _process_forecast: the 3-hourly samples grouped by calendar day, the first
\* "days or 1" days kept, each with its extremes, its strongest wind, its summed
\* precipitation and the set of its descriptions (", ".join(set(...)): the order
\* of a set is not fixed, the members are).  feels_like and humidity, which
\* nothing reads, are left out.
ProcessForecast(city, samples, days) ==
    LET keys == SortedInts({samples[i].day : i \in DOMAIN samples})
        n == IF days = 0 THEN 1 ELSE days
        kept == SubSeq(keys, 1, IF Len(keys) < n THEN Len(keys) ELSE n)
        OfDay(k) == SelectSeq(samples, LAMBDA s : s.day = k)
        Field(ss, f) == [i \in DOMAIN ss |-> ss[i][f]]
        Day(k) ==
            LET ss == OfDay(k)
            IN  [date |-> k,
                 temp_min |-> MinSeq(Field(ss, "temp")),
                 temp_max |-> MaxSeq(Field(ss, "temp")),
                 wind_speed |-> MaxSeq(Field(ss, "wind")),
                 precipitation |-> SumSeq([i \in DOMAIN ss |-> PrecipitationOf(ss[i])]),
                 description |-> {ss[i].desc : i \in DOMAIN ss}]
    IN  [city |-> city, has_location |-> TRUE,
         daily |-> [i \in DOMAIN kept |-> Day(kept[i])]]

\* get_weather_forecast(city, days): a geocoding miss, a non-200 answer and a
\* network failure are all caught inside and answered with an empty forecast
GetWeatherForecast(city, days, outcome) ==
    IF outcome.kind = "ok"
    THEN ProcessForecast(city, outcome.samples, days)
    ELSE [city |-> city, has_location |-> FALSE, daily |-> <<>>]

----------------------------------------------------------------------------
(* handlers.py: ChecklistHandlers, the trip conversation *)

\* what a handler did: the state it returned ("NONE": it returned None), the
\* user_data it left, the message it sent, and whether it raised
Result(state, ud, reply) == [state |-> state, ud |-> ud, reply |-> reply, raised |-> FALSE]

Raised(ud, what) == [state |-> "NONE", ud |-> ud, reply |-> what, raised |-> TRUE]

\* main.py new_trip: only a prompt, the session is not touched
new_trip(ud) == Result(WAITING_DESTINATION, ud, "ask_destination")

\* main.py cancel
cancel(ud) == Result(END, ud, "cancelled")

handle_destination(ud, text) ==
    Result(WAITING_START_DATE, Put(EmptyDict, "destination", text), "ask_start_date")

handle_start_date(ud, text, clock) ==
    IF ~ReMatchDate(text)
    THEN Result(WAITING_START_DATE, ud, "date_format")
    ELSE LET p == Strptime(text)
         IN  IF ~p.ok THEN Result(WAITING_START_DATE, ud, "date_invalid")
             ELSE IF DateRefused(p.at, clock)
                  THEN Result(WAITING_START_DATE, ud, "date_not_future")
                  ELSE Result(WAITING_DURATION,
                              Put(Put(ud, "start_date", text), "start_date_obj", p.at),
                              "ask_duration")

\* round(x / n, 1) of a non-negative amount x given in tenths, ties to even
RoundDiv(x, n) ==
    LET q == x \div n
        r2 == 2 * (x % n)
    IN  IF r2 > n \/ (r2 = n /\ q % 2 = 1) THEN q + 1 ELSE q

\* the aggregated weather handle_duration stores (lines 150-206); an average is
\* kept exact, as <<sum, count>>
AggregateWeather(weather_info) ==
    LET daily == weather_info.daily
        F(f) == [i \in DOMAIN daily |-> daily[i][f]]
        Avg(s) == IF s = <<>> THEN None ELSE Some(<<SumSeq(s), Len(s)>>)
    IN  [descriptions |-> {daily[i].description : i \in DOMAIN daily},
         avg_temp_min |-> Avg(F("temp_min")),
         avg_temp_max |-> Avg(F("temp_max")),
         max_wind |-> IF daily = <<>> THEN None ELSE Some(MaxSeq(F("wind_speed"))),
         avg_precip |-> IF daily = <<>> THEN None
                        ELSE Some(RoundDiv(SumSeq(F("precipitation")), Len(daily))),
         total_precip |-> IF daily = <<>> THEN None
                          ELSE Some(SumSeq(F("precipitation")))]

\* a variant of the weather step in which a forecast that could not be fetched
\* is handled like any other error of the handler: session cleared, flow ended
WeatherStepFatal(ud, outcome) ==
    LET wi == GetWeatherForecast(ud["destination"], DefaultDays, outcome)
    IN  IF wi.daily = <<>>
        THEN Result(END, EmptyDict, "generic_error")
        ELSE Result(WAITING_TRIP_TYPE,
                    Put(Put(ud, "weather_info", wi), "aggregated_weather",
                        AggregateWeather(wi)),
                    "forecast_ask_purpose")

\* the inner try block of handle_duration (lines 135-232), reached with the
\* duration stored
WeatherStep(ud, outcome) ==
    IF ~Has(ud, "destination")
    \* KeyError in the inner try and again in its except clause: the outer
    \* "except Exception" clears the session and ends the conversation
    THEN Result(END, EmptyDict, "generic_error")
    ELSE LET wi == GetWeatherForecast(ud["destination"], DefaultDays, outcome)
             ud2 == Put(Put(ud, "weather_info", wi),
                        "aggregated_weather", AggregateWeather(wi))
         IN  Result(WAITING_TRIP_TYPE, ud2,
                    IF wi.daily = <<>> THEN "no_forecast_ask_purpose"
                    ELSE "forecast_ask_purpose")

\* a variant that stores the number before it is validated
handle_duration_storing(ud, text, outcome) ==
    LET p == ParseInt(text)
    IN  IF ~p.ok THEN Result(WAITING_DURATION, ud, "duration_invalid")
        ELSE IF DurationRefused(p.val)
        THEN Result(WAITING_DURATION, Put(ud, "duration", p.val), "duration_invalid")
        ELSE WeatherStep(Put(ud, "duration", p.val), outcome)

handle_duration(ud, text, outcome) ==
    LET p == ParseInt(text)
    IN  IF ~p.ok \/ DurationRefused(p.val)
        THEN Result(WAITING_DURATION, ud, "duration_invalid")
        ELSE WeatherStep(Put(ud, "duration", p.val), outcome)

\* handle_trip_type reads update.message.text first (line 261); a callback
\* query update carries no message, so the attribute access on None raises
handle_trip_type_callback(ud) == Raised(ud, "AttributeError")

----------------------------------------------------------------------------
(* What the users send and what the weather provider answers *)

\* "Lisbon"
Lisbon == <<76, 105, 115, 98, 111, 110>>

Destinations == {Lisbon}

\* "27.02.2026"
D_27_02_2026 == <<50, 55, 46, 48, 50, 46, 50, 48, 50, 54>>

\* "28.02.2026"
D_28_02_2026 == <<50, 56, 46, 48, 50, 46, 50, 48, 50, 54>>

\* "01.03.2026"
D_01_03_2026 == <<48, 49, 46, 48, 51, 46, 50, 48, 50, 54>>

\* "29.02.2028"
D_29_02_2028 == <<50, 57, 46, 48, 50, 46, 50, 48, 50, 56>>

\* "29.02.2026"
D_29_02_2026 == <<50, 57, 46, 48, 50, 46, 50, 48, 50, 54>>

\* "31.04.2026"
D_31_04_2026 == <<51, 49, 46, 48, 52, 46, 50, 48, 50, 54>>

\* "00.03.2026"
D_00_03_2026 == <<48, 48, 46, 48, 51, 46, 50, 48, 50, 54>>

\* "01.13.2026"
D_01_13_2026 == <<48, 49, 46, 49, 51, 46, 50, 48, 50, 54>>

\* "01.01.0000"
D_01_01_0000 == <<48, 49, 46, 48, 49, 46, 48, 48, 48, 48>>

\* "1.3.2026"
D_1_3_2026 == <<49, 46, 51, 46, 50, 48, 50, 54>>

\* "2026-03-01"
D_iso == <<50, 48, 50, 54, 45, 48, 51, 45, 48, 49>>

\* "01.03.2026\n"
D_01_03_2026_nl == <<48, 49, 46, 48, 51, 46, 50, 48, 50, 54, 10>>

DateTexts == {D_27_02_2026, D_28_02_2026, D_01_03_2026, D_29_02_2028, D_29_02_2026,
              D_31_04_2026, D_00_03_2026, D_01_13_2026, D_01_01_0000, D_1_3_2026,
              D_iso, D_01_03_2026_nl}

\* "5"
N_5 == <<53>>

\* " 12 "
N_12_sp == <<32, 49, 50, 32>>

\* "1_0"
N_1_0 == <<49, 95, 48>>

\* "0"
N_0 == <<48>>

\* "-3"
N_minus3 == <<45, 51>>

\* "abc"
N_abc == <<97, 98, 99>>

\* "1.5"
N_1_5 == <<49, 46, 53>>

\* "5_"
N_5_ == <<53, 95>>

DurationTexts == {N_5, N_12_sp, N_1_0, N_0, N_minus3, N_abc, N_1_5, N_5_}

\* "beach vacation"
P_beach == <<98, 101, 97, 99, 104, 32, 118, 97, 99, 97, 116, 105, 111, 110>>

PurposeTexts == {P_beach}

\* "clear sky"
ClearSky == <<99, 108, 101, 97, 114, 32, 115, 107, 121>>

\* "light rain"
LightRain == <<108, 105, 103, 104, 116, 32, 114, 97, 105, 110>>

Sample(day, temp, wind, rain, desc) ==
    [day |-> day, temp |-> temp, wind |-> wind, rain |-> rain, desc |-> desc]

\* a forecast of two days: 12.0 to 18.0 degrees with 1.2 mm of rain, then 9.0 degrees
ForecastA == <<Sample(1, 120, 30, 0, ClearSky), Sample(1, 180, 50, 12, LightRain),
               Sample(2, 90, 20, 0, ClearSky)>>

WeatherFailures == {"geocode_miss", "provider_error", "network_failure"}

WeatherOutcomes ==
    {[kind |-> "ok", samples |-> ForecastA]}
    \cup {[kind |-> k, samples |-> <<>>] : k \in WeatherFailures}

\* the clock starts at midnight of 28.02.2026
ClockStart == Midnight(Ordinal(2026, 2, 28))

----------------------------------------------------------------------------
(* models/checklist.py: the tables *)

EmptyDb == [users |-> {}, checklists |-> {}, items |-> {}]

NoCall == [phase |-> "idle"]

\* the persistence block of handle_trip_type is not running
Idle == [phase |-> "idle"]

----------------------------------------------------------------------------
(* main.py: the handlers as registered, one action per update *)

Handled(u, kind, name, text, handler, reply, wx) ==
    [user |-> u, kind |-> kind, name |-> name, text |-> text, handler |-> handler,
     reply |-> reply, wx |-> wx]

\* ConversationHandler: a handler that raises or returns None leaves the state
NewState(old, res) == IF res.raised \/ res.state = "NONE" THEN old ELSE res.state

\* a variant with one session for the whole bot instead of one per user
ApplyShared(u, res) ==
    /\ conv' = [conv EXCEPT ![u] = NewState(conv[u], res)]
    /\ user_data' = [v \in Users |-> res.ud]

Apply(u, res) ==
    /\ conv' = [conv EXCEPT ![u] = NewState(conv[u], res)]
    /\ user_data' = [user_data EXCEPT ![u] = res.ud]

\* /start and /help: fallbacks of the conversation and handlers of the
\* application; both return None, so the conversation keeps its state
MenuCommand(u, name) ==
    /\ UNCHANGED rest
    /\ UNCHANGED <<now, conv, user_data>>
    /\ last' = Handled(u, "command", name, <<>>, name, "menu", "none")

\* the clock advances
Tick ==
    /\ UNCHANGED rest
    /\ now < ClockStart + MaxTicks
    /\ now' = now + 1
    /\ last' = Handled(0, "tick", "", <<>>, "none", "none", "none")
    /\ UNCHANGED <<conv, user_data>>

\* /newtrip: an entry point, looked at only while the conversation has no state
\* (allow_reentry is not set); no other handler of the application takes it
NewTripCommand(u) ==
    /\ UNCHANGED rest
    /\ UNCHANGED now
    /\ IF conv[u] = END
       THEN LET res == new_trip(user_data[u])
            IN  /\ Apply(u, res)
                /\ last' = Handled(u, "command", "newtrip", <<>>, "new_trip",
                                   res.reply, "none")
       ELSE /\ UNCHANGED <<conv, user_data>>
            /\ last' = Handled(u, "command", "newtrip", <<>>, "none", "none", "none")

\* the new_trip button: an entry point while the conversation has no state;
\* otherwise no state handler and no fallback matches and the update reaches
\* button_handler, which calls new_trip and drops the state it returns
NewTripButton(u) ==
    /\ UNCHANGED rest
    /\ UNCHANGED now
    /\ LET res == new_trip(user_data[u])
       IN  /\ IF conv[u] = END THEN Apply(u, res) ELSE UNCHANGED <<conv, user_data>>
           /\ last' = Handled(u, "callback", "new_trip", <<>>,
                              IF conv[u] = END THEN "new_trip" ELSE "button_handler",
                              res.reply, "none")

DestinationText(u, t) ==
    /\ UNCHANGED rest
    /\ conv[u] = WAITING_DESTINATION
    /\ UNCHANGED now
    /\ LET res == handle_destination(user_data[u], t)
       IN  /\ Apply(u, res)
           /\ last' = Handled(u, "text", "", t, "handle_destination", res.reply, "none")

StartDateText(u, t) ==
    /\ UNCHANGED rest
    /\ conv[u] = WAITING_START_DATE
    /\ UNCHANGED now
    /\ LET res == handle_start_date(user_data[u], t, now)
       IN  /\ Apply(u, res)
           /\ last' = Handled(u, "text", "", t, "handle_start_date", res.reply, "none")

DurationText(u, t, outcome) ==
    /\ UNCHANGED rest
    /\ conv[u] = WAITING_DURATION
    /\ UNCHANGED now
    /\ LET res == handle_duration(user_data[u], t, outcome)
       IN  /\ Apply(u, res)
           /\ last' = Handled(u, "text", "", t, "handle_duration", res.reply,
                              IF Has(res.ud, "weather_info") THEN outcome.kind
                              ELSE "none")

\* a text while the state is WAITING_TRIP_TYPE: the state has only a
\* CallbackQueryHandler and no fallback takes a text, so no handler of the trip
\* conversation runs
PurposeText(u, t) ==
    /\ UNCHANGED rest
    /\ conv[u] = WAITING_TRIP_TYPE
    /\ UNCHANGED <<now, conv, user_data>>
    /\ last' = Handled(u, "text", "", t, "none", "none", "none")

\* a "trip_..." button: handle_trip_type, from the conversation in
\* WAITING_TRIP_TYPE and from button_handler otherwise
TripTypeButton(u) ==
    /\ UNCHANGED rest
    /\ UNCHANGED now
    /\ LET res == handle_trip_type_callback(user_data[u])
       IN  /\ Apply(u, res)
           /\ last' = Handled(u, "callback", "trip_beach", <<>>, "handle_trip_type",
                              res.reply, "none")

\* /cancel: a fallback of the conversation, so it runs only while it has a state
CancelCommand(u) ==
    /\ UNCHANGED rest
    /\ conv[u] # END
    /\ UNCHANGED now
    /\ LET res == cancel(user_data[u])
       IN  /\ Apply(u, res)
           /\ last' = Handled(u, "command", "cancel", <<>>, "cancel", res.reply, "none")

Init ==
    /\ now = ClockStart
    /\ conv = [u \in Users |-> END]
    /\ user_data = [u \in Users |-> EmptyDict]
    /\ last = Handled(0, "init", "", <<>>, "none", "none", "none")
    /\ db = EmptyDb
    /\ gen = NoCall
    /\ pc = Idle

Next ==
    \/ Tick
    \/ \E u \in Users : NewTripCommand(u)
    \/ \E u \in Users : NewTripButton(u)
    \/ \E u \in Users, t \in Destinations : DestinationText(u, t)
    \/ \E u \in Users, t \in DateTexts : StartDateText(u, t)
    \/ \E u \in Users, t \in DurationTexts, w \in WeatherOutcomes : DurationText(u, t, w)
    \/ \E u \in Users, t \in PurposeTexts : PurposeText(u, t)
    \/ \E u \in Users : TripTypeButton(u)
    \/ \E u \in Users : CancelCommand(u)
    \/ \E u \in Users, name \in {"start"} : MenuCommand(u, name)

Spec == Init /\ [][Next]_vars

----------------------------------------------------------------------------
(* Properties of the trip conversation *)

\* the update handled by the step is a text of user u
TextFrom(u) == last'.user = u /\ last'.kind = "text"

\* the texts of DateTexts that are DD.MM.YYYY and name a day of the calendar,
\* each with date(y, m, d).toordinal() of that day
RealDates ==
    {<<D_27_02_2026, 739674>>, <<D_28_02_2026, 739675>>, <<D_01_03_2026, 739676>>,
     <<D_29_02_2028, 740406>>}

\* the text names a real day that begins strictly after the clock
StrictlyFuture(text, clock) ==
    \E d \in RealDates : d[1] = text /\ d[2] * TicksPerDay > clock

\* the texts of DurationTexts that int() reads as a number above zero
PositiveInts == {<<N_5, 5>>, <<N_12_sp, 12>>, <<N_1_0, 10>>}

IsPositiveInt(text) == \E p \in PositiveInts : p[1] = text

\* C5: in AwaitingStartDate a text that matches DD.MM.YYYY, names a real date
\* and lies strictly after now moves to AwaitingDuration and stores
\* start_date; every other text (no match, no such date, at or before now)
\* stays in AwaitingStartDate and leaves start_date unset.
C5_StartDateStrictlyFuture ==
    [][\A u \in Users :
        (conv[u] = WAITING_START_DATE /\ TextFrom(u)) =>
            IF StrictlyFuture(last'.text, now)
            THEN /\ conv'[u] = WAITING_DURATION
                 /\ Has(user_data'[u], "start_date")
                 /\ user_data'[u]["start_date"] = last'.text
            ELSE /\ conv'[u] = WAITING_START_DATE
                 /\ ~Has(user_data'[u], "start_date")]_vars

\* C6: in AwaitingDuration a text is accepted (duration stored, on to
\* AwaitingPurpose) exactly when it parses as an integer n > 0; for 0, for
\* negatives and for non-numeric text the state stays and nothing is stored.
C6_DurationPositiveInteger ==
    [][\A u \in Users :
        (conv[u] = WAITING_DURATION /\ TextFrom(u)) =>
            IF IsPositiveInt(last'.text)
            THEN /\ conv'[u] = WAITING_TRIP_TYPE
                 /\ Has(user_data'[u], "duration")
                 /\ \E p \in PositiveInts :
                        p[1] = last'.text /\ user_data'[u]["duration"] = p[2]
            ELSE /\ conv'[u] = WAITING_DURATION
                 /\ user_data'[u] = user_data[u]
                 /\ ~Has(user_data'[u], "duration")]_vars

\* " 12 " was accepted as 12 days
C6_Witness ==
    /\ last.handler = "handle_duration"
    /\ last.text = N_12_sp
    /\ conv[last.user] = WAITING_TRIP_TYPE
    /\ user_data[last.user]["duration"] = 12

\* C7: weather unavailability is never fatal: for every valid positive duration
\* and every outcome of the weather fetch (success, geocode miss, provider
\* error, network failure) the step ends in AwaitingPurpose with destination,
\* start date and duration still stored.
C7_WeatherNeverFatal ==
    [][\A u \in Users :
        (conv[u] = WAITING_DURATION /\ TextFrom(u) /\ IsPositiveInt(last'.text)) =>
            /\ last'.wx \in {"ok"} \cup WeatherFailures
            /\ conv'[u] = WAITING_TRIP_TYPE
            /\ {"destination", "start_date", "duration"} \subseteq DOMAIN user_data'[u]
            /\ user_data'[u]["destination"] = user_data[u]["destination"]
            /\ user_data'[u]["start_date"] = user_data[u]["start_date"]
            /\ user_data'[u]["duration"] > 0]_vars

\* the network failed during the fetch and the conversation asks for the purpose
C7_Witness ==
    /\ last.handler = "handle_duration"
    /\ last.wx = "network_failure"
    /\ last.reply = "no_forecast_ask_purpose"
    /\ conv[last.user] = WAITING_TRIP_TYPE
    /\ {"destination", "start_date", "duration"} \subseteq DOMAIN user_data[last.user]

\* C1: the state changes only in strict forward order AwaitingDestination ->
\* AwaitingStartDate -> AwaitingDuration -> AwaitingPurpose -> Completed, or to
\* the terminal end; no handler moves backwards or skips a state, and a state
\* is left for the next one only after its own input was validated
\* (destination non-empty, date real and strictly in the future, duration an
\* integer above zero).
C1_StrictForwardOrder ==
    [][\A u \in Users :
        conv'[u] # conv[u] =>
            \/ conv'[u] = END
            \/ /\ conv[u] = END
               /\ conv'[u] = WAITING_DESTINATION
               /\ last'.user = u
               /\ last'.name \in {"newtrip", "new_trip"}
            \/ /\ conv[u] = WAITING_DESTINATION
               /\ conv'[u] = WAITING_START_DATE
               /\ TextFrom(u)
               /\ last'.text # <<>>
            \/ /\ conv[u] = WAITING_START_DATE
               /\ conv'[u] = WAITING_DURATION
               /\ TextFrom(u)
               /\ StrictlyFuture(last'.text, now)
            \/ /\ conv[u] = WAITING_DURATION
               /\ conv'[u] = WAITING_TRIP_TYPE
               /\ TextFrom(u)
               /\ IsPositiveInt(last'.text)]_vars

\* the trip fields the purpose step relies on
Collected(u) == {"destination", "start_date", "duration"} \subseteq DOMAIN user_data[u]

\* C2: in AwaitingPurpose with destination, start date and duration stored, a
\* non-empty free-text purpose is accepted and the conversation reaches
\* Completed: handle_trip_type runs, one checklist with items is persisted,
\* the session is cleared and the flow ends.
C2_PurposeCompletes ==
    [][\A u \in Users :
        (conv[u] = WAITING_TRIP_TYPE /\ Collected(u) /\ TextFrom(u) /\ last'.text # <<>>) =>
            /\ last'.handler = "handle_trip_type"
            /\ conv'[u] = END
            /\ user_data'[u] = EmptyDict
            /\ \E c \in db'.checklists \ db.checklists :
                   \E i \in db'.items : i.checklist_id = c.id]_vars

\* C10: starting a new conversation (/newtrip or the new_trip button) in any
\* state, mid-flow included, puts the conversation in AwaitingDestination with
\* every session field removed.
C10_NewTripResets ==
    [][\A u \in Users :
        (last'.user = u /\ last'.name \in {"newtrip", "new_trip"}) =>
            /\ conv'[u] = WAITING_DESTINATION
            /\ user_data'[u] = EmptyDict]_vars

----------------------------------------------------------------------------
(* str.lower(), "in" and list.sort() on texts *)

\* the lower case of Latin and Russian capitals; every other code point that
\* occurs in the texts of the model is its own lower case
Lower(c) ==
    IF c \in 65..90 \/ c \in 1040..1071 THEN c + 32
    ELSE IF c = 1025 THEN 1105
    ELSE c

LowerText(t) == [i \in DOMAIN t |-> Lower(t[i])]

\* sub in t
Contains(sub, t) ==
    \E k \in 0..(Len(t) - Len(sub)) : \A i \in DOMAIN sub : t[k + i] = sub[i]

RECURSIVE TextLessFrom(_, _, _)
\* a[k..] < b[k..], the texts being equal before k
TextLessFrom(a, b, k) ==
    IF k > Len(b) THEN FALSE
    ELSE IF k > Len(a) THEN TRUE
    ELSE IF a[k] # b[k] THEN a[k] < b[k]
    ELSE TextLessFrom(a, b, k + 1)

\* a < b as Python orders two str: by code point, a proper prefix first
TextLess(a, b) == TextLessFrom(a, b, 1)

RECURSIVE SortFrom(_, _)
\* the texts of l at the indices I, the least first, equal texts in the order
\* they have in l
SortFrom(l, I) ==
    IF I = {} THEN <<>>
    ELSE LET m == CHOOSE i \in I :
                      \A j \in I \ {i} :
                          TextLess(l[i], l[j]) \/ (l[i] = l[j] /\ i < j)
         IN  <<l[m]>> \o SortFrom(l, I \ {m})

\* sorted(l), and l.sort(), of a list of texts
SortList(l) == SortFrom(l, DOMAIN l)

RECURSIVE SortTexts(_)
\* sorted(S) of a set of texts
SortTexts(S) ==
    IF S = {} THEN <<>>
    ELSE LET m == CHOOSE x \in S : \A y \in S \ {x} : TextLess(x, y)
         IN  <<m>> \o SortTexts(S \ {m})

\* the members of a list, as set(list) keeps them
Members(s) == {s[i] : i \in DOMAIN s}

----------------------------------------------------------------------------
(* services/weather.py: get_packing_suggestions *)

\* what everyone needs (documents, chargers, toiletries, first-aid kit):
\*   "Dokumenty", "Zaryadnye ustrojstva", "Tualetnye prinadlezhnosti", "Aptechka"
BaselineItems ==
    <<<<1044, 1086, 1082, 1091, 1084, 1077, 1085, 1090, 1099>>,
      <<1047, 1072, 1088, 1103, 1076, 1085, 1099, 1077, 32, 1091, 1089, 1090, 1088, 1086, 1081, 1089, 1090, 1074, 1072>>,
      <<1058, 1091, 1072, 1083, 1077, 1090, 1085, 1099, 1077, 32, 1087, 1088, 1080, 1085, 1072, 1076, 1083, 1077, 1078, 1085, 1086, 1089, 1090, 1080>>,
      <<1040, 1087, 1090, 1077, 1095, 1082, 1072>>>>

\* min_temp < 10 (warm jacket, hat, gloves, scarf, warm socks):
\*   "Teplaya kurtka", "Shapka", "Perchatki", "Sharf", "Teplye noski"
ColdItems ==
    <<<<1058, 1077, 1087, 1083, 1072, 1103, 32, 1082, 1091, 1088, 1090, 1082, 1072>>,
      <<1064, 1072, 1087, 1082, 1072>>,
      <<1055, 1077, 1088, 1095, 1072, 1090, 1082, 1080>>,
      <<1064, 1072, 1088, 1092>>,
      <<1058, 1077, 1087, 1083, 1099, 1077, 32, 1085, 1086, 1089, 1082, 1080>>>>

\* 10 <= min_temp < 20 (light jacket or cardigan, long trousers, sweater):
\*   "Legkaya kurtka ili kardigan", "Dlinnye bryuki", "Kofta ili sviter"
MildItems ==
    <<<<1051, 1077, 1075, 1082, 1072, 1103, 32, 1082, 1091, 1088, 1090, 1082, 1072, 32, 1080, 1083, 1080, 32, 1082, 1072, 1088, 1076, 1080, 1075, 1072, 1085>>,
      <<1044, 1083, 1080, 1085, 1085, 1099, 1077, 32, 1073, 1088, 1102, 1082, 1080>>,
      <<1050, 1086, 1092, 1090, 1072, 32, 1080, 1083, 1080, 32, 1089, 1074, 1080, 1090, 1077, 1088>>>>

\* max_temp > 25 (sunscreen, sunglasses, sun hat, light clothes, shorts, T-shirts):
\*   "Solncezaschitnyj krem", "Solncezaschitnye ochki", "Golovnoj ubor ot solnca",
\*   "Legkaya odezhda", "Shorty", "Futbolki"
HotItems ==
    <<<<1057, 1086, 1083, 1085, 1094, 1077, 1079, 1072, 1097, 1080, 1090, 1085, 1099, 1081, 32, 1082, 1088, 1077, 1084>>,
      <<1057, 1086, 1083, 1085, 1094, 1077, 1079, 1072, 1097, 1080, 1090, 1085, 1099, 1077, 32, 1086, 1095, 1082, 1080>>,
      <<1043, 1086, 1083, 1086, 1074, 1085, 1086, 1081, 32, 1091, 1073, 1086, 1088, 32, 1086, 1090, 32, 1089, 1086, 1083, 1085, 1094, 1072>>,
      <<1051, 1077, 1075, 1082, 1072, 1103, 32, 1086, 1076, 1077, 1078, 1076, 1072>>,
      <<1064, 1086, 1088, 1090, 1099>>,
      <<1060, 1091, 1090, 1073, 1086, 1083, 1082, 1080>>>>

\* rain (umbrella, raincoat, waterproof shoes):
\*   "Zont", "Dozhdevik", "Vodonepronicaemaya obuv"
RainItems ==
    <<<<1047, 1086, 1085, 1090>>,
      <<1044, 1086, 1078, 1076, 1077, 1074, 1080, 1082>>,
      <<1042, 1086, 1076, 1086, 1085, 1077, 1087, 1088, 1086, 1085, 1080, 1094, 1072, 1077, 1084, 1072, 1103, 32, 1086, 1073, 1091, 1074, 1100>>>>

\* the words that make a description a rainy one:
\*   "rain", "dozhd"
RainWords ==
    <<<<114, 97, 105, 110>>,
      <<1076, 1086, 1078, 1076, 1100>>>>

\* a variant of get_packing_suggestions that has nothing to suggest without a
\* forecast
GetPackingSuggestionsNoForecast(forecast) ==
    IF forecast.daily = <<>> THEN <<>> ELSE BaselineItems

\* a variant of the temperature bands in which exactly 10.0 degrees is still
\* cold and exactly 25.0 degrees is already hot
TemperatureItemsInclusive(min_temp, max_temp) ==
    (IF min_temp <= 100 THEN Members(ColdItems)
     ELSE IF min_temp < 200 THEN Members(MildItems) ELSE {})
    \cup (IF max_temp >= 250 THEN Members(HotItems) ELSE {})

\* lines 200-224: the items of the temperature bands, from the lowest temp_min
\* and the highest temp_max of the days
TemperatureItems(min_temp, max_temp) ==
    (IF min_temp < 100 THEN Members(ColdItems)
     ELSE IF min_temp < 200 THEN Members(MildItems) ELSE {})
    \cup (IF max_temp > 250 THEN Members(HotItems) ELSE {})

\* a variant of the rain test that takes 0.5 mm for rain
HasRainFromHalf(daily) ==
    \E i \in DOMAIN daily :
        \/ \E d \in daily[i].description, w \in Members(RainWords) :
               Contains(w, LowerText(d))
        \/ daily[i].precipitation >= 5

\* lines 226-236: a day whose lowered description holds "rain" or its Russian
\* counterpart, or whose precipitation is over 0.5 mm
HasRain(daily) ==
    \E i \in DOMAIN daily :
        \/ \E d \in daily[i].description, w \in Members(RainWords) :
               Contains(w, LowerText(d))
        \/ daily[i].precipitation > 5

\* get_packing_suggestions(forecast): the baseline alone when there is no day
\* of forecast, else the baseline with the items of the temperature bands and
\* of rain, sorted.  Temperatures are in tenths of a degree, precipitation in
\* tenths of a millimetre.
GetPackingSuggestions(forecast) ==
    LET daily == forecast.daily
        min_temp == MinSeq([i \in DOMAIN daily |-> daily[i].temp_min])
        max_temp == MaxSeq([i \in DOMAIN daily |-> daily[i].temp_max])
    IN  IF daily = <<>> THEN BaselineItems
        ELSE SortTexts(Members(BaselineItems)
                 \cup TemperatureItems(min_temp, max_temp)
                 \cup (IF HasRain(daily) THEN Members(RainItems) ELSE {}))

----------------------------------------------------------------------------
(* services/checklist_generator.py: the rule tables *)

\* _get_basic_travel_items (passport, money, bank cards, phone, charger, headphones, toothbrush and paste, comb, deodorant, underwear, socks, pyjamas):
\*   "Pasport", "Dengi", "Bankovskie karty", "Telefon", "Zaryadnoe ustrojstvo",
\*   "Naushniki", "Zubnaya schetka i pasta", "Rascheska", "Dezodorant", "Nizhnee bele",
\*   "Noski", "Pizhama"
BasicTravelItems ==
    <<<<1055, 1072, 1089, 1087, 1086, 1088, 1090>>,
      <<1044, 1077, 1085, 1100, 1075, 1080>>,
      <<1041, 1072, 1085, 1082, 1086, 1074, 1089, 1082, 1080, 1077, 32, 1082, 1072, 1088, 1090, 1099>>,
      <<1058, 1077, 1083, 1077, 1092, 1086, 1085>>,
      <<1047, 1072, 1088, 1103, 1076, 1085, 1086, 1077, 32, 1091, 1089, 1090, 1088, 1086, 1081, 1089, 1090, 1074, 1086>>,
      <<1053, 1072, 1091, 1096, 1085, 1080, 1082, 1080>>,
      <<1047, 1091, 1073, 1085, 1072, 1103, 32, 1097, 1077, 1090, 1082, 1072, 32, 1080, 32, 1087, 1072, 1089, 1090, 1072>>,
      <<1056, 1072, 1089, 1095, 1077, 1089, 1082, 1072>>,
      <<1044, 1077, 1079, 1086, 1076, 1086, 1088, 1072, 1085, 1090>>,
      <<1053, 1080, 1078, 1085, 1077, 1077, 32, 1073, 1077, 1083, 1100, 1077>>,
      <<1053, 1086, 1089, 1082, 1080>>,
      <<1055, 1080, 1078, 1072, 1084, 1072>>>>

\* "business"
K_business == <<98, 117, 115, 105, 110, 101, 115, 115>>

\* "beach"
K_beach == <<98, 101, 97, 99, 104>>

\* "active"
K_active == <<97, 99, 116, 105, 118, 101>>

\* "other"
K_other == <<111, 116, 104, 101, 114>>

\* laptop, business suit, business cards, notebook and pen, laptop bag:
\*   "Noutbuk", "Delovoj kostyum", "Vizitki", "Bloknot i ruchka",
\*   "Portfel/sumka dlya noutbuka"
BusinessItems ==
    <<<<1053, 1086, 1091, 1090, 1073, 1091, 1082>>,
      <<1044, 1077, 1083, 1086, 1074, 1086, 1081, 32, 1082, 1086, 1089, 1090, 1102, 1084>>,
      <<1042, 1080, 1079, 1080, 1090, 1082, 1080>>,
      <<1041, 1083, 1086, 1082, 1085, 1086, 1090, 32, 1080, 32, 1088, 1091, 1095, 1082, 1072>>,
      <<1055, 1086, 1088, 1090, 1092, 1077, 1083, 1100, 47, 1089, 1091, 1084, 1082, 1072, 32, 1076, 1083, 1103, 32, 1085, 1086, 1091, 1090, 1073, 1091, 1082, 1072>>>>

\* swimsuit, beach towel, sunscreen, sunglasses, flip-flops, beach bag:
\*   "Kupalnik/plavki", "Plyazhnoe polotence", "Solncezaschitnyj krem",
\*   "Solncezaschitnye ochki", "Shlepancy", "Plyazhnaya sumka"
BeachItems ==
    <<<<1050, 1091, 1087, 1072, 1083, 1100, 1085, 1080, 1082, 47, 1087, 1083, 1072, 1074, 1082, 1080>>,
      <<1055, 1083, 1103, 1078, 1085, 1086, 1077, 32, 1087, 1086, 1083, 1086, 1090, 1077, 1085, 1094, 1077>>,
      <<1057, 1086, 1083, 1085, 1094, 1077, 1079, 1072, 1097, 1080, 1090, 1085, 1099, 1081, 32, 1082, 1088, 1077, 1084>>,
      <<1057, 1086, 1083, 1085, 1094, 1077, 1079, 1072, 1097, 1080, 1090, 1085, 1099, 1077, 32, 1086, 1095, 1082, 1080>>,
      <<1064, 1083, 1077, 1087, 1072, 1085, 1094, 1099>>,
      <<1055, 1083, 1103, 1078, 1085, 1072, 1103, 32, 1089, 1091, 1084, 1082, 1072>>>>

\* trekking shoes, backpack, water flask, compass, map, hiking first-aid kit, torch:
\*   "Trekkingovaya obuv", "Ryukzak", "Flyazhka dlya vody", "Kompas",
\*   "Karta mestnosti", "Pohodnaya aptechka", "Fonarik"
ActiveItems ==
    <<<<1058, 1088, 1077, 1082, 1082, 1080, 1085, 1075, 1086, 1074, 1072, 1103, 32, 1086, 1073, 1091, 1074, 1100>>,
      <<1056, 1102, 1082, 1079, 1072, 1082>>,
      <<1060, 1083, 1103, 1078, 1082, 1072, 32, 1076, 1083, 1103, 32, 1074, 1086, 1076, 1099>>,
      <<1050, 1086, 1084, 1087, 1072, 1089>>,
      <<1050, 1072, 1088, 1090, 1072, 32, 1084, 1077, 1089, 1090, 1085, 1086, 1089, 1090, 1080>>,
      <<1055, 1086, 1093, 1086, 1076, 1085, 1072, 1103, 32, 1072, 1087, 1090, 1077, 1095, 1082, 1072>>,
      <<1060, 1086, 1085, 1072, 1088, 1080, 1082>>>>

\* walking shoes, camera, guidebook, light backpack, umbrella:
\*   "Udobnaya obuv dlya progulok", "Fotoapparat", "Putevoditel", "Legkij ryukzak",
\*   "Zont"
OtherItems ==
    <<<<1059, 1076, 1086, 1073, 1085, 1072, 1103, 32, 1086, 1073, 1091, 1074, 1100, 32, 1076, 1083, 1103, 32, 1087, 1088, 1086, 1075, 1091, 1083, 1086, 1082>>,
      <<1060, 1086, 1090, 1086, 1072, 1087, 1087, 1072, 1088, 1072, 1090>>,
      <<1055, 1091, 1090, 1077, 1074, 1086, 1076, 1080, 1090, 1077, 1083, 1100>>,
      <<1051, 1077, 1075, 1082, 1080, 1081, 32, 1088, 1102, 1082, 1079, 1072, 1082>>,
      <<1047, 1086, 1085, 1090>>>>

\* duration > 7 (laundry supplies, spare glasses/lenses, an extra pair of shoes):
\*   "Sredstva dlya stirki", "Zapasnye ochki/linzy", "Dopolnitelnyj komplekt obuvi"
Over7Items ==
    <<<<1057, 1088, 1077, 1076, 1089, 1090, 1074, 1072, 32, 1076, 1083, 1103, 32, 1089, 1090, 1080, 1088, 1082, 1080>>,
      <<1047, 1072, 1087, 1072, 1089, 1085, 1099, 1077, 32, 1086, 1095, 1082, 1080, 47, 1083, 1080, 1085, 1079, 1099>>,
      <<1044, 1086, 1087, 1086, 1083, 1085, 1080, 1090, 1077, 1083, 1100, 1085, 1099, 1081, 32, 1082, 1086, 1084, 1087, 1083, 1077, 1082, 1090, 32, 1086, 1073, 1091, 1074, 1080>>>>

\* duration > 14 (sewing kit, universal charger, spare phone):
\*   "Shvejnyj nabor", "Universalnoe zaryadnoe ustrojstvo", "Zapasnoj telefon"
Over14Items ==
    <<<<1064, 1074, 1077, 1081, 1085, 1099, 1081, 32, 1085, 1072, 1073, 1086, 1088>>,
      <<1059, 1085, 1080, 1074, 1077, 1088, 1089, 1072, 1083, 1100, 1085, 1086, 1077, 32, 1079, 1072, 1088, 1103, 1076, 1085, 1086, 1077, 32, 1091, 1089, 1090, 1088, 1086, 1081, 1089, 1090, 1074, 1086>>,
      <<1047, 1072, 1087, 1072, 1089, 1085, 1086, 1081, 32, 1090, 1077, 1083, 1077, 1092, 1086, 1085>>>>

\* "Dokumenty i dengi" (documents and money)
CatDocuments == <<1044, 1086, 1082, 1091, 1084, 1077, 1085, 1090, 1099, 32, 1080, 32, 1076, 1077, 1085, 1100, 1075, 1080>>

\* "Odezhda" (clothes)
CatClothes == <<1054, 1076, 1077, 1078, 1076, 1072>>

\* "Elektronika" (electronics)
CatElectronics == <<1069, 1083, 1077, 1082, 1090, 1088, 1086, 1085, 1080, 1082, 1072>>

\* "Gigiena" (hygiene)
CatHygiene == <<1043, 1080, 1075, 1080, 1077, 1085, 1072>>

\* "Aksessuary" (accessories)
CatAccessories == <<1040, 1082, 1089, 1077, 1089, 1089, 1091, 1072, 1088, 1099>>

\* "Prochee" (other)
CatOther == <<1055, 1088, 1086, 1095, 1077, 1077>>

\* keywords of CatDocuments:
\*   "pasport", "viza", "dengi", "karty", "dokumenty"
KwDocuments ==
    <<<<1087, 1072, 1089, 1087, 1086, 1088, 1090>>,
      <<1074, 1080, 1079, 1072>>,
      <<1076, 1077, 1085, 1100, 1075, 1080>>,
      <<1082, 1072, 1088, 1090, 1099>>,
      <<1076, 1086, 1082, 1091, 1084, 1077, 1085, 1090, 1099>>>>

\* keywords of CatClothes:
\*   "kurtka", "bryuki", "noski", "bele", "obuv", "kostyum", "shapka", "odezhda"
KwClothes ==
    <<<<1082, 1091, 1088, 1090, 1082, 1072>>,
      <<1073, 1088, 1102, 1082, 1080>>,
      <<1085, 1086, 1089, 1082, 1080>>,
      <<1073, 1077, 1083, 1100, 1077>>,
      <<1086, 1073, 1091, 1074, 1100>>,
      <<1082, 1086, 1089, 1090, 1102, 1084>>,
      <<1096, 1072, 1087, 1082, 1072>>,
      <<1086, 1076, 1077, 1078, 1076, 1072>>>>

\* keywords of CatElectronics:
\*   "telefon", "noutbuk", "zaryadnoe", "naushniki", "fotoapparat"
KwElectronics ==
    <<<<1090, 1077, 1083, 1077, 1092, 1086, 1085>>,
      <<1085, 1086, 1091, 1090, 1073, 1091, 1082>>,
      <<1079, 1072, 1088, 1103, 1076, 1085, 1086, 1077>>,
      <<1085, 1072, 1091, 1096, 1085, 1080, 1082, 1080>>,
      <<1092, 1086, 1090, 1086, 1072, 1087, 1087, 1072, 1088, 1072, 1090>>>>

\* keywords of CatHygiene:
\*   "zubnaya", "rascheska", "dezodorant", "shampun", "polotence", "gigien"
KwHygiene ==
    <<<<1079, 1091, 1073, 1085, 1072, 1103>>,
      <<1088, 1072, 1089, 1095, 1077, 1089, 1082, 1072>>,
      <<1076, 1077, 1079, 1086, 1076, 1086, 1088, 1072, 1085, 1090>>,
      <<1096, 1072, 1084, 1087, 1091, 1085, 1100>>,
      <<1087, 1086, 1083, 1086, 1090, 1077, 1085, 1094, 1077>>,
      <<1075, 1080, 1075, 1080, 1077, 1085>>>>

\* keywords of CatAccessories:
\*   "ochki", "zont", "sumka", "ryukzak", "remen"
KwAccessories ==
    <<<<1086, 1095, 1082, 1080>>,
      <<1079, 1086, 1085, 1090>>,
      <<1089, 1091, 1084, 1082, 1072>>,
      <<1088, 1102, 1082, 1079, 1072, 1082>>,
      <<1088, 1077, 1084, 1077, 1085, 1100>>>>

\* _get_purpose_specific_items: purpose_items.get(purpose.lower(), [])
GetPurposeSpecificItems(purpose) ==
    LET key == LowerText(purpose)
    IN  IF key = K_business THEN BusinessItems
        ELSE IF key = K_beach THEN BeachItems
        ELSE IF key = K_active THEN ActiveItems
        ELSE IF key = K_other THEN OtherItems
        ELSE <<>>

\* a variant whose bands begin at 7 and at 14 days
GetDurationSpecificItemsFrom7(duration) ==
    (IF duration >= 7 THEN Over7Items ELSE <<>>)
    \o (IF duration >= 14 THEN Over14Items ELSE <<>>)

\* _get_duration_specific_items
GetDurationSpecificItems(duration) ==
    (IF duration > 7 THEN Over7Items ELSE <<>>)
    \o (IF duration > 14 THEN Over14Items ELSE <<>>)

\* categorization_rules, in the order of the dict
CategorizationRules ==
    <<<<CatDocuments, KwDocuments>>, <<CatClothes, KwClothes>>,
      <<CatElectronics, KwElectronics>>, <<CatHygiene, KwHygiene>>,
      <<CatAccessories, KwAccessories>>>>

\* a variant that takes the last of the categories whose keyword the title holds
CategoryOfLast(item) ==
    LET item_lower == LowerText(item)
        hits == {r \in DOMAIN CategorizationRules :
                    \E k \in Members(CategorizationRules[r][2]) : Contains(k, item_lower)}
    IN  IF hits = {} THEN CatOther
        ELSE CategorizationRules[CHOOSE r \in hits : \A q \in hits : r >= q][1]

\* the category whose keyword the lowered title holds, the first in the order
\* of the rules; CatOther when none does
CategoryOf(item) ==
    LET item_lower == LowerText(item)
        hits == {r \in DOMAIN CategorizationRules :
                    \E k \in Members(CategorizationRules[r][2]) : Contains(k, item_lower)}
    IN  IF hits = {} THEN CatOther
        ELSE CategorizationRules[CHOOSE r \in hits : \A q \in hits : r <= q][1]

\* every title the rule tables can produce
RuleItems ==
    Members(BaselineItems \o ColdItems \o MildItems \o HotItems \o RainItems
            \o BasicTravelItems \o BusinessItems \o BeachItems \o ActiveItems
            \o OtherItems \o Over7Items \o Over14Items)

\* CategoryOf of each of them, computed once
CategoryOfRuleItem == [item \in RuleItems |-> CategoryOf(item)]

\* the titles of a set as a for loop meets them: the order of a Python set of
\* str is not fixed, "asc" and "desc" stand for two runs that differ in it
Iterate(S, order) ==
    LET s == SortTexts(S)
    IN  IF order = "asc" THEN s ELSE [i \in DOMAIN s |-> s[Len(s) + 1 - i]]

\* the category a title goes to
Placed(item) ==
    IF item \in RuleItems THEN CategoryOfRuleItem[item] ELSE CategoryOf(item)

\* the categories dict, in the order of its keys
CategoryNames ==
    <<CatDocuments, CatClothes, CatElectronics, CatHygiene, CatAccessories, CatOther>>

\* a variant of _categorize_items without the sort of lines 278-279
CategorizeSeenUnsorted(seen) ==
    LET Appended(name) == SelectSeq(seen, LAMBDA item : Placed(item) = name)
        filled == [n \in DOMAIN CategoryNames |->
                     <<CategoryNames[n], Appended(CategoryNames[n])>>]
    IN  SelectSeq(filled, LAMBDA c : c[2] # <<>>)

\* _categorize_items, given the order in which "for item in items" meets the
\* titles: every title appended to the list of its category, each list sorted,
\* the empty categories dropped; the result in the order of the dict, as
\* <<category, titles>> pairs
CategorizeSeen(seen) ==
    LET Appended(name) == SelectSeq(seen, LAMBDA item : Placed(item) = name)
        filled == [n \in DOMAIN CategoryNames |->
                     <<CategoryNames[n], SortList(Appended(CategoryNames[n]))>>]
    IN  SelectSeq(filled, LAMBDA c : c[2] # <<>>)

\* _categorize_items(items) in one of the two iteration orders
CategorizeItems(items, order) == CategorizeSeen(Iterate(items, order))

----------------------------------------------------------------------------
(* services/llm_client.py: LLMClient.generate_checklist *)

\* what _make_openai_request answers for a request the provider did not serve:
\* each except clause returns {"error": ...}; an httpx.HTTPError, the error the
\* retry decorator waits for, is caught by "except Exception" like any other,
\* so the request is made once and nothing is raised
RequestError(kind) ==
    IF kind = "rate_limit" THEN Some("Rate limit exceeded")
    ELSE IF kind = "invalid_request" THEN Some("Invalid request")
    ELSE IF kind = "api_error" THEN Some("API error")
    ELSE IF kind = "timeout" THEN Some("Request timed out")
    ELSE IF kind \in {"http_error", "decode_error"} THEN Some("Unexpected error")
    ELSE None

LlmAnswer(error, categories) ==
    [raised |-> FALSE, error |-> error, categories |-> categories]

\* a variant of generate_checklist without the check of line 323: an answer
\* whose category mapping is missing or empty is returned as a success
generate_checklist_unchecked(has_key, outcome) ==
    IF ~has_key THEN LlmAnswer(Some("OpenAI API key not provided"), <<>>)
    ELSE IF outcome.kind = "raises"
    THEN [raised |-> TRUE, error |-> Some("exception"), categories |-> <<>>]
    ELSE IF RequestError(outcome.kind) # None
    THEN LlmAnswer(RequestError(outcome.kind), <<>>)
    ELSE IF outcome.kind = "no_choices"
    THEN LlmAnswer(Some("Response did not contain any text"), <<>>)
    ELSE IF outcome.kind = "unparseable"
    THEN LlmAnswer(Some("Failed to extract valid JSON from response"), <<>>)
    ELSE IF outcome.kind = "categories_not_mapping"
    THEN LlmAnswer(Some("Unexpected error"), <<>>)
    ELSE LlmAnswer(None, outcome.categories)

\* generate_checklist(...): {"error": reason} or the parsed answer.  "raises"
\* is an exception of the code before the try block (lines 188-283), the only
\* one the function lets out.
generate_checklist(has_key, outcome) ==
    IF ~has_key THEN LlmAnswer(Some("OpenAI API key not provided"), <<>>)
    ELSE IF outcome.kind = "raises"
    THEN [raised |-> TRUE, error |-> Some("exception"), categories |-> <<>>]
    ELSE IF RequestError(outcome.kind) # None
    THEN LlmAnswer(RequestError(outcome.kind), <<>>)
    ELSE IF outcome.kind = "no_choices"
    THEN LlmAnswer(Some("Response did not contain any text"), <<>>)
    ELSE IF outcome.kind = "unparseable"
    THEN LlmAnswer(Some("Failed to extract valid JSON from response"), <<>>)
    ELSE IF outcome.kind \in {"no_categories", "empty_categories"}
    THEN LlmAnswer(Some("Response did not contain valid categories"), <<>>)
    ELSE IF outcome.kind = "categories_not_mapping"
    \* result["categories"].values() raises inside the try block
    THEN LlmAnswer(Some("Unexpected error"), <<>>)
    ELSE LlmAnswer(None, outcome.categories)

----------------------------------------------------------------------------
(* services/checklist_generator.py: generate_travel_checklist *)

Generated(destination, purpose, duration, categories, generated_by, llm_error) ==
    [raised |-> FALSE, destination |-> destination, purpose |-> purpose,
     duration |-> duration, categories |-> categories,
     generated_by |-> generated_by, llm_error |-> llm_error]

\* lines 130-168: the rule-based list.  weather_info is a dict with keys by
\* now (get_weather_forecast answers one even when it fails), so the weather
\* items always come from get_packing_suggestions.
RuleBased(destination, purpose, duration, weather_info, llm_error, order) ==
    LET weather_items == GetPackingSuggestions(weather_info)
        purpose_items == GetPurposeSpecificItems(purpose)
        duration_items == GetDurationSpecificItems(duration)
        all_items == Members(weather_items \o purpose_items \o duration_items)
    IN  Generated(destination, purpose, duration, CategorizeItems(all_items, order),
                  "rules", llm_error)

\* a variant of line 40 that also asks again when the forecast handed over
\* has no day
WeatherQueriedWhenNoDays(weather_info) ==
    weather_info = None \/ (CHOOSE w \in weather_info : TRUE).daily = <<>>

\* line 40, "if not weather_info": the engine asks the weather service itself
\* when it is handed None or an empty dict
WeatherQueried(weather_info) == weather_info = None

\* a variant that tries the model whether or not the key is set
UseLlmAlways(env_key) == TRUE

\* lines 93-98, use_llm: the model is tried only while OPENAI_API_KEY is set
UseLlm(env_key) == env_key

\* generate_travel_checklist(destination, purpose, duration, start_date,
\* weather_info, user_id).  env_key: OPENAI_API_KEY is set when the call is
\* made; client_key: it was set when the LLMClient was built; wx and llm: what
\* the weather provider and the model answer; order: the iteration order of
\* the set of items.
generate_travel_checklist(destination, purpose, duration, weather_info, env_key, client_key, wx, llm, order) ==
    LET wi == IF WeatherQueried(weather_info)
              THEN GetWeatherForecast(destination, DefaultDays, wx)
              ELSE CHOOSE w \in weather_info : TRUE
        r == generate_checklist(client_key, llm)
    IN  IF ~UseLlm(env_key)
        THEN RuleBased(destination, purpose, duration, wi, None, order)
        ELSE IF r.raised \/ r.error # None
        THEN RuleBased(destination, purpose, duration, wi, r.error, order)
        ELSE Generated(destination, purpose, duration, r.categories, "llm", None)

----------------------------------------------------------------------------
(* The generator called on its own *)

\* "Beach"
Beach_cap == <<66, 101, 97, 99, 104>>

\* "diving", a category the rule tables do not know
K_diving == <<100, 105, 118, 105, 110, 103>>

GenPurposes == {K_beach, Beach_cap, K_business, K_other, P_beach, K_diving}

GenDurations == {5, 8, 15}

\* three days from 22.0 to 30.0 degrees, dry
ForecastHot == <<Sample(1, 220, 30, 0, ClearSky), Sample(1, 300, 40, 0, ClearSky),
                 Sample(2, 240, 20, 0, ClearSky), Sample(3, 260, 20, 0, ClearSky)>>

\* the weather_info the caller hands over: None, a forecast, or what a failed
\* fetch left in the session
GenWeatherInfos ==
    {None,
     Some(ProcessForecast(Lisbon, ForecastA, DefaultDays)),
     Some(ProcessForecast(Lisbon, ForecastHot, DefaultDays)),
     Some(GetWeatherForecast(Lisbon, DefaultDays,
                             [kind |-> "network_failure", samples |-> <<>>]))}

\* an answer of the model with two categories
LlmCategories ==
    <<<<CatDocuments, <<BasicTravelItems[1], BasicTravelItems[2]>>>>,
      <<CatClothes, <<ColdItems[2]>>>>>>

LlmFailureKinds ==
    {"rate_limit", "invalid_request", "api_error", "timeout", "http_error", "raises",
     "no_choices", "unparseable", "no_categories", "empty_categories",
     "categories_not_mapping"}

\* an answer of the model whose only category lists nothing:
\* {"categories": {"<documents>": []}}
LlmCategoriesNoItems == <<<<CatDocuments, <<>>>>>>

LlmOutcomes ==
    {[kind |-> "ok", categories |-> LlmCategories],
     [kind |-> "ok_no_items", categories |-> LlmCategoriesNoItems]}
    \cup {[kind |-> k, categories |-> <<>>] : k \in LlmFailureKinds}

\* one call; the generator keeps nothing between calls, so one call from the
\* start shows them all.  The weather provider is asked only when the caller
\* hands over no weather_info.
GenerateCall(purpose, duration, weather_info, env_key, client_key, wx, llm, order) ==
    /\ gen.phase = "idle"
    /\ weather_info # None => wx.kind = "ok"
    /\ gen' = [phase |-> "returned", purpose |-> purpose, duration |-> duration,
               weather_info |-> weather_info, env_key |-> env_key,
               client_key |-> client_key, wx |-> wx, llm |-> llm.kind,
               order |-> order,
               \* a request went to the model: generate_checklist was called
               \* and got past its own check of the key and its preparation
               requested |-> UseLlm(env_key) /\ client_key /\ llm.kind # "raises",
               result |-> generate_travel_checklist(Lisbon, purpose, duration,
                              weather_info, env_key, client_key, wx, llm, order)]
    /\ UNCHANGED <<now, conv, user_data, last, db, pc>>

InitGen ==
    /\ now = ClockStart
    /\ conv = [u \in Users |-> END]
    /\ user_data = [u \in Users |-> EmptyDict]
    /\ last = Handled(0, "init", "", <<>>, "none", "none", "none")
    /\ db = EmptyDb
    /\ gen = NoCall
    /\ pc = Idle

NextGen ==
    /\ gen.phase = "idle"
    /\ \E purpose \in GenPurposes, duration \in GenDurations,
          weather_info \in GenWeatherInfos, env_key \in BOOLEAN,
          client_key \in BOOLEAN, wx \in WeatherOutcomes, llm \in LlmOutcomes,
          order \in {"asc", "desc"} :
           GenerateCall(purpose, duration, weather_info, env_key, client_key, wx, llm,
                        order)

SpecGen == InitGen /\ [][NextGen]_vars

----------------------------------------------------------------------------
(* Properties of the generator *)

Returned == gen.phase = "returned"

\* the model was asked and did not deliver a list
LlmFailed == gen.env_key /\ (~gen.client_key \/ gen.llm \in LlmFailureKinds)

\* no forecast: none handed over and the fetch failed, or the empty forecast a
\* failed fetch left behind handed over
NoWeather ==
    \/ gen.weather_info = None /\ gen.wx.kind \in WeatherFailures
    \/ \E w \in gen.weather_info : w.daily = <<>>

\* the title is listed under some category
Listed(categories, title) ==
    \E c \in DOMAIN categories : \E k \in DOMAIN categories[c][2] :
        categories[c][2][k] = title

\* C3: generate_travel_checklist never raises; when the model fails every
\* time and there is no weather summary (the fetch failing too) it returns a
\* non-empty categorized list that holds the baseline items: documents,
\* chargers, toiletries, first-aid kit.
C3_FallbackKeepsBaseline ==
    Returned =>
        /\ ~gen.result.raised
        /\ (LlmFailed /\ NoWeather) =>
               /\ gen.result.categories # <<>>
               /\ \A c \in DOMAIN gen.result.categories :
                      gen.result.categories[c][2] # <<>>
               /\ \A b \in DOMAIN BaselineItems :
                      Listed(gen.result.categories, BaselineItems[b])

\* the provider limits the rate, the network is down, and the list still has
\* the first-aid kit
C3_Witness ==
    /\ Returned
    /\ gen.env_key /\ gen.client_key /\ gen.llm = "rate_limit"
    /\ gen.weather_info = None /\ gen.wx.kind = "network_failure"
    /\ gen.result.generated_by = "rules"
    /\ Listed(gen.result.categories, BaselineItems[4])

\* the forecast the call of gen works with
WeatherOfCall ==
    IF gen.weather_info = None
    THEN GetWeatherForecast(Lisbon, DefaultDays, gen.wx)
    ELSE CHOOSE w \in gen.weather_info : TRUE

\* C4: for every failing outcome of the model (provider error, raised
\* exception, the error the retries are for, unparseable text, missing or
\* empty category mapping) generate_travel_checklist does not abort: it
\* records the reason, returns the rule-based list, which depends on the trip
\* alone, and surfaces no error.
C4_LlmFailureFallsBack ==
    (Returned /\ LlmFailed) =>
        /\ ~gen.result.raised
        /\ gen.result.generated_by = "rules"
        /\ gen.result.llm_error # None
        /\ gen.result.categories # <<>>
        /\ gen.result.categories =
               RuleBased(Lisbon, gen.purpose, gen.duration, WeatherOfCall, None,
                         "asc").categories

\* the model answered with an empty category mapping and the rules took over
C4_Witness ==
    /\ Returned
    /\ gen.env_key /\ gen.client_key /\ gen.llm = "empty_categories"
    /\ gen.order = "desc"
    /\ gen.result.generated_by = "rules"
    /\ gen.result.llm_error = Some("Response did not contain valid categories")
    /\ gen.result.categories # <<>>

----------------------------------------------------------------------------
(* models/checklist.py and models/base.py: rows, keys, committed reads *)

\* bound: how many checklist rows the store may hold
MaxChecklists == 2

\* bound: the largest key an item row may get
MaxItems == 3

\* INTEGER PRIMARY KEY of SQLite: one more than the largest key in the table
NextId(rows) ==
    IF rows = {} THEN 1
    ELSE 1 + (CHOOSE m \in {r.id : r \in rows} : \A r \in rows : r.id <= m)

UserRow(id, telegram_id) == [id |-> id, telegram_id |-> telegram_id]

ChecklistRow(id, title, trip_metadata, owner_id) ==
    [id |-> id, title |-> title, type |-> "travel", trip_metadata |-> trip_metadata,
     owner_id |-> owner_id]

ItemRow(id, title, category, checklist_id, order) ==
    [id |-> id, title |-> title, description |-> None, is_completed |-> FALSE,
     category |-> category, order |-> order, checklist_id |-> checklist_id]

\* query(User).filter_by(telegram_id=...).first(), as a Python Optional
UserByTelegram(d, telegram_id) == {r \in d.users : r.telegram_id = telegram_id}

\* query(Checklist).filter_by(id=...).first()
ChecklistById(d, id) == {c \in d.checklists : c.id = id}

\* checklist.items: the relationship, read when it is first touched
ItemsOf(d, id) == {i \in d.items : i.checklist_id = id}

\* the ownership test of the chat handlers: `not user_db or
\* checklist.owner_id != user_db.id`
NoAccess(d, telegram_id, checklist) ==
    \A r \in UserByTelegram(d, telegram_id) : checklist.owner_id # r.id

\* str(n) of a natural number
RECURSIVE IntToText(_)
IntToText(n) == IF n < 10 THEN <<48 + n>> ELSE IntToText(n \div 10) \o <<48 + (n % 10)>>

\* what a store operation did: who asked and how, the checklist it named, the
\* answer, and the content it disclosed (None: nothing of the checklist)
StoreOp(u, kind, name, checklist, reply, content) ==
    [user |-> u, kind |-> kind, name |-> name, checklist |-> checklist,
     reply |-> reply, content |-> content]

Disclose(d, checklist) == Some([checklist |-> checklist, items |-> ItemsOf(d, checklist.id)])

----------------------------------------------------------------------------
(* handlers.py handle_trip_type, lines 385-429: the persistence block *)

\* "Pasport", "Aptechka", "Zont"
Pasport == <<1055, 1072, 1089, 1087, 1086, 1088, 1090>>

Aptechka == <<1040, 1087, 1090, 1077, 1095, 1082, 1072>>

Zont == <<1047, 1086, 1085, 1090>>

\* the session the three earlier steps leave and the purpose the block reads
TripSession ==
    LET a == handle_destination(EmptyDict, Lisbon).ud
        b == handle_start_date(a, D_01_03_2026, ClockStart).ud
        c == handle_duration(b, N_5, [kind |-> "network_failure", samples |-> <<>>]).ud
    IN  Put(Put(c, "original_trip_purpose", P_beach), "trip_type", "beach")

\* checklist['categories'] handed to the block: category -> titles, in order
GeneratedCategories ==
    { <<<<CatOther, <<>>>>>>,
      <<<<CatDocuments, <<Pasport>>>>>>,
      <<<<CatDocuments, <<Pasport>>>>, <<CatOther, <<Aptechka>>>>>> }

\* lines 411-417: the items of the mapping, flattened in its order
RECURSIVE FlattenCategories(_)
FlattenCategories(categories) ==
    IF categories = <<>> THEN <<>>
    ELSE LET head == categories[1]
         IN  [k \in DOMAIN head[2] |-> [title |-> head[2][k], category |-> head[1]]]
                 \o FlattenCategories(Tail(categories))

\* line 383: "<destination> s <start_date> (<purpose> <duration> dnej)"
TripTitle(ud) ==
    ud["destination"] \o <<32, 1089, 32>> \o ud["start_date"] \o <<32, 40>>
        \o ud["original_trip_purpose"] \o <<32>> \o IntToText(ud["duration"])
        \o <<32, 1076, 1085, 1077, 1081, 41>>

\* lines 389-397
TripMetadata(ud) ==
    [destination |-> ud["destination"], trip_type |-> ud["trip_type"],
     original_purpose |-> ud["original_trip_purpose"], duration |-> ud["duration"],
     start_date |-> ud["start_date"],
     weather |-> IF Has(ud, "weather_info") THEN ud["weather_info"] ELSE None,
     aggregated_weather |->
         IF Has(ud, "aggregated_weather") THEN ud["aggregated_weather"] ELSE None]

\* lines 420-428: the rows session.add() queues, keyed as the commit will
PendingItemRows(d, checklist_id, items) ==
    {ItemRow(NextId(d.items) + k - 1, items[k].title, items[k].category, checklist_id, 0)
        : k \in DOMAIN items}

\* a variant that adds the row without looking for one first
ResolveUserNoLookup(u) ==
    /\ pc = Idle
    /\ conv[u] = WAITING_TRIP_TYPE
    /\ db' = [db EXCEPT !.users = @ \cup {UserRow(NextId(db.users), u)}]
    /\ last' = StoreOp(u, "bot", "resolve_user", 0, "resolved", None)
    /\ UNCHANGED <<now, conv, user_data, gen, pc>>

\* lines 353-367: the row of the acting user is looked up by telegram_id and
\* added and committed when there is none; no await stands between the query
\* and the commit.  The table is a plain set of rows: the unique index of the
\* column (models/checklist.py, line 10) is not relied on.
ResolveUser(u) ==
    /\ pc = Idle
    /\ conv[u] = WAITING_TRIP_TYPE
    /\ LET found == UserByTelegram(db, u)
           user_db == IF found = {} THEN UserRow(NextId(db.users), u)
                      ELSE CHOOSE r \in found : TRUE
       IN  db' = [db EXCEPT !.users = @ \cup {user_db}]
    /\ last' = StoreOp(u, "bot", "resolve_user", 0, "resolved", None)
    /\ UNCHANGED <<now, conv, user_data, gen, pc>>

\* a variant that writes the Telegram id of the user as the owner
OwnerIdFromTelegram(d, u) == u

\* line 398, owner_id=user_db.id: the key of the row lines 355-367 found or added
OwnerId(d, u) == (CHOOSE r \in UserByTelegram(d, u) : TRUE).id

\* lines 385-401: the checklist row is added and committed on its own
SaveChecklist(u, categories) ==
    /\ pc = Idle
    /\ conv[u] = WAITING_TRIP_TYPE
    /\ Cardinality(db.checklists) < MaxChecklists
    /\ UserByTelegram(db, u) # {}
    /\ LET row == ChecklistRow(NextId(db.checklists), TripTitle(user_data[u]),
                               TripMetadata(user_data[u]), OwnerId(db, u))
       IN  /\ db' = [db EXCEPT !.checklists = @ \cup {row}]
           /\ pc' = [phase |-> "header", user |-> u, checklist_id |-> row.id,
                     items |-> FlattenCategories(categories)]
           /\ last' = StoreOp(u, "bot", "save_checklist", row.id, "committed", None)
    /\ UNCHANGED <<now, conv, user_data, gen>>

\* lines 410-429 and 431-479: every item is added, one commit, the result is
\* sent, the session is cleared and the conversation ends
SaveItems ==
    /\ pc # Idle
    /\ NextId(db.items) + Len(pc.items) - 1 <= MaxItems
    /\ db' = [db EXCEPT !.items = @ \cup PendingItemRows(db, pc.checklist_id, pc.items)]
    /\ conv' = [conv EXCEPT ![pc.user] = END]
    /\ user_data' = [user_data EXCEPT ![pc.user] = EmptyDict]
    /\ last' = StoreOp(pc.user, "bot", "save_items", pc.checklist_id, "checklist_ready", None)
    /\ pc' = Idle
    /\ UNCHANGED <<now, gen>>

\* line 429 raises (the database is locked or the write is refused): the
\* except block at 481 names the unimported module traceback and raises in
\* turn; nothing rolls the committed checklist row back, the session and the
\* conversation stay as they were
SaveItemsFails ==
    /\ pc # Idle
    /\ pc.items # <<>>
    /\ last' = StoreOp(pc.user, "bot", "save_items", pc.checklist_id, "NameError", None)
    /\ pc' = Idle
    /\ UNCHANGED <<now, conv, user_data, db, gen>>

\* line 401 raises: no row is stored, and the except block at 481 raises
\* NameError as above, which error_handler answers
SaveChecklistFails(u) ==
    /\ pc = Idle
    /\ conv[u] = WAITING_TRIP_TYPE
    /\ UserByTelegram(db, u) # {}
    /\ last' = StoreOp(u, "bot", "save_checklist", 0, "NameError", None)
    /\ UNCHANGED <<now, conv, user_data, db, gen, pc>>

----------------------------------------------------------------------------
(* handlers.py, lines 505-1098: the chat entry points on stored checklists.
   A button is served by button_handler (main.py 183-224) on the event loop,
   which is never inside lines 385-429 when another update is handled: the
   block holds no await *)

Shown(checklists, items) == Some([checklists |-> checklists, items |-> items])

ChecklistIds == 1..MaxChecklists

ItemIds == 1..MaxItems

Chat(u, name, checklist, reply, content) ==
    /\ last' = StoreOp(u, "chat", name, checklist, reply, content)
    /\ UNCHANGED <<now, conv, user_data, db, gen, pc>>

\* "my_lists": show_user_lists creates the user row on first contact and
\* lists the checklists the user owns
ShowLists(u) ==
    /\ pc = Idle
    /\ LET found == UserByTelegram(db, u)
           user_obj == IF found = {} THEN UserRow(NextId(db.users), u)
                       ELSE CHOOSE r \in found : TRUE
           own == {c \in db.checklists : c.owner_id = user_obj.id}
       IN  /\ db' = [db EXCEPT !.users = @ \cup {user_obj}]
           /\ last' = StoreOp(u, "chat", "my_lists", 0,
                              IF own = {} THEN "no_lists" ELSE "lists",
                              IF own = {} THEN None ELSE Shown(own, {}))
    /\ UNCHANGED <<now, conv, user_data, gen, pc>>

\* "view_<id>": view_checklist looks the checklist up and shows it
ChatView(u, id) ==
    /\ pc = Idle
    /\ LET found == ChecklistById(db, id)
       IN  IF found = {} THEN Chat(u, "view", id, "not_found", None)
           ELSE LET checklist == CHOOSE c \in found : TRUE
                IN  Chat(u, "view", id, "checklist_shown",
                         Shown({checklist}, ItemsOf(db, id)))

\* "edit_<id>": edit_checklist
ChatEdit(u, id) ==
    /\ pc = Idle
    /\ LET found == ChecklistById(db, id)
       IN  IF found = {} THEN Chat(u, "edit", id, "not_found", None)
           ELSE LET checklist == CHOOSE c \in found : TRUE
                IN  IF NoAccess(db, u, checklist)
                    THEN Chat(u, "edit", id, "no_access", None)
                    ELSE Chat(u, "edit", id, "edit_menu",
                              Shown({checklist}, ItemsOf(db, id)))

\* "category_<id>_<category>": handle_category_selection
ChatCategory(u, id, category) ==
    /\ pc = Idle
    /\ LET found == ChecklistById(db, id)
       IN  IF found = {} THEN Chat(u, "category", id, "not_found", None)
           ELSE LET checklist == CHOOSE c \in found : TRUE
                IN  IF NoAccess(db, u, checklist)
                    THEN Chat(u, "category", id, "no_access", None)
                    ELSE Chat(u, "category", id, "category_items",
                              Shown({}, {i \in ItemsOf(db, id) : i.category = category}))

\* "add_item_<id>": handle_add_item splits the data once at the first "_" and
\* calls int("item_<id>"): ValueError before anything is read; error_handler
\* answers with the generic error
ChatAddItem(u, id) ==
    /\ pc = Idle
    /\ Chat(u, "add_item", id, "ValueError", None)

\* "add_to_category_<id>_<category>", the entry point of the edit
\* conversation: handle_add_to_category calls int("to"): ValueError, and the
\* conversation is never entered
ChatAddToCategory(u, id) ==
    /\ pc = Idle
    /\ Chat(u, "add_to_category", id, "ValueError", None)

\* "delete_item_<item id>": handle_delete_item calls int("item_<item id>"):
\* ValueError
ChatDeleteItem(u, item_id) ==
    /\ pc = Idle
    /\ \E i \in db.items :
          /\ i.id = item_id
          /\ Chat(u, "delete_item", i.checklist_id, "ValueError", None)

\* "share_<id>": share_checklist answers with a placeholder
ChatShare(u, id) ==
    /\ pc = Idle
    /\ Chat(u, "share", id,
            IF ChecklistById(db, id) = {} THEN "not_found" ELSE "share_placeholder",
            None)

----------------------------------------------------------------------------
(* web/main.py: the routes, served by uvicorn in a thread of its own
   (main.py 350-391), each request on a session of its own; a request carries
   no identity, v is whoever sent it *)

\* "prochee"
CatOtherLower == <<1087, 1088, 1086, 1095, 1077, 1077>>

\* "* Novyj element", the placeholder add_category stores
NewItemPlaceholder ==
    <<10024, 32, 1053, 1086, 1074, 1099, 1081, 32, 1101, 1083, 1077, 1084, 1077, 1085, 1090>>

\* the categories a visitor types into the forms
FormCategories == {CatOther, CatOtherLower}

\* the categories of the buttons edit_checklist builds
ListedCategories == {CatDocuments, CatOther}

FormItems == {Zont}

Web(v, name, checklist, reply, content) ==
    /\ last' = StoreOp(v, "web", name, checklist, reply, content)
    /\ UNCHANGED <<now, conv, user_data, gen, pc>>

\* GET /checklist/{id}
WebView(v, id) ==
    /\ LET found == ChecklistById(db, id)
       IN  IF found = {} THEN Web(v, "view", id, "404", None)
           ELSE Web(v, "view", id, "page",
                    Shown({CHOOSE c \in found : TRUE}, ItemsOf(db, id)))
    /\ UNCHANGED db

\* GET /edit/{id}
WebEdit(v, id) ==
    /\ LET found == ChecklistById(db, id)
       IN  IF found = {} THEN Web(v, "edit", id, "404", None)
           ELSE Web(v, "edit", id, "page",
                    Shown({CHOOSE c \in found : TRUE}, ItemsOf(db, id)))
    /\ UNCHANGED db

\* POST /edit/{id}/add-item
WebAddItem(v, id, item_name, category) ==
    /\ NextId(db.items) <= MaxItems
    /\ IF ChecklistById(db, id) = {}
       THEN Web(v, "add_item", id, "redirect_error", None) /\ UNCHANGED db
       ELSE LET max_order == Cardinality({i \in ItemsOf(db, id) : i.category = category})
                new_item == ItemRow(NextId(db.items), item_name, category, id,
                                    max_order + 1)
            IN  /\ db' = [db EXCEPT !.items = @ \cup {new_item}]
                /\ Web(v, "add_item", id, "redirect_ok", None)

\* POST /edit/{id}/delete-item
WebDeleteItem(v, id, item_id) ==
    LET found == {i \in ItemsOf(db, id) : i.id = item_id}
    IN  IF found = {}
        THEN Web(v, "delete_item", id, "redirect_error", None) /\ UNCHANGED db
        ELSE /\ db' = [db EXCEPT !.items = @ \ found]
             /\ Web(v, "delete_item", id, "redirect_ok", None)

\* POST /edit/{id}/add-category
WebAddCategory(v, id, category_name) ==
    /\ NextId(db.items) <= MaxItems
    /\ IF ChecklistById(db, id) = {}
       THEN Web(v, "add_category", id, "redirect_error", None) /\ UNCHANGED db
       ELSE IF LowerText(category_name) \in {LowerText(i.category) : i \in ItemsOf(db, id)}
       THEN Web(v, "add_category", id, "category_exists", None) /\ UNCHANGED db
       ELSE /\ db' = [db EXCEPT !.items = @ \cup
                         {ItemRow(NextId(db.items), NewItemPlaceholder, category_name, id, 1)}]
            /\ Web(v, "add_category", id, "redirect_ok", None)

\* the rows delete_category selects: filter_by compares the category column
\* with the form value as it is; the variant folds the case as add_category
\* does
InCategoryFolded(d, id, category_name) ==
    {i \in ItemsOf(d, id) : LowerText(i.category) = LowerText(category_name)}

InCategory(d, id, category_name) ==
    {i \in ItemsOf(d, id) : i.category = category_name}

\* POST /edit/{id}/delete-category
WebDeleteCategory(v, id, category_name) ==
    LET items == InCategory(db, id, category_name)
    IN  IF items = {}
        THEN Web(v, "delete_category", id, "category_not_found", None) /\ UNCHANGED db
        ELSE /\ db' = [db EXCEPT !.items = @ \ items]
             /\ Web(v, "delete_category", id, "redirect_ok", None)

\* GET /share/{id}
WebShare(v, id) ==
    /\ LET found == ChecklistById(db, id)
       IN  IF found = {} THEN Web(v, "share", id, "404", None)
           ELSE Web(v, "share", id, "json",
                    Shown({CHOOSE c \in found : TRUE}, ItemsOf(db, id)))
    /\ UNCHANGED db

----------------------------------------------------------------------------
(* the persistence block and its readers: every conversation stands at the
   purpose step, the store is empty *)

InitPersist ==
    /\ now = ClockStart
    /\ conv = [u \in Users |-> WAITING_TRIP_TYPE]
    /\ user_data = [u \in Users |-> TripSession]
    /\ last = StoreOp(0, "init", "", 0, "none", None)
    /\ db = EmptyDb
    /\ gen = NoCall
    /\ pc = Idle

NextPersist ==
    \/ \E u \in Users : ResolveUser(u)
    \/ \E u \in Users, categories \in GeneratedCategories : SaveChecklist(u, categories)
    \/ SaveItems
    \/ SaveItemsFails
    \/ \E u \in Users : SaveChecklistFails(u)
    \/ \E u \in Users : ShowLists(u)
    \/ \E u \in Users, id \in ChecklistIds : ChatView(u, id)
    \/ \E v \in Users, id \in ChecklistIds : WebView(v, id)

SpecPersist == InitPersist /\ [][NextPersist]_vars

----------------------------------------------------------------------------
(* the entry points on a stored checklist: user 2 met the bot first (row 1),
   then user 1 (row 2); user 2 completed a trip, user 1 stands at the purpose
   step *)

SeedDb ==
    [users |-> {UserRow(1, 2), UserRow(2, 1)},
     checklists |-> {ChecklistRow(1, TripTitle(TripSession), TripMetadata(TripSession), 1)},
     items |-> {ItemRow(1, Pasport, CatDocuments, 1, 0)}]

InitStore ==
    /\ now = ClockStart
    /\ conv = [u \in Users |-> IF u = 2 THEN END ELSE WAITING_TRIP_TYPE]
    /\ user_data = [u \in Users |-> IF u = 2 THEN EmptyDict ELSE TripSession]
    /\ last = StoreOp(0, "init", "", 0, "none", None)
    /\ db = SeedDb
    /\ gen = NoCall
    /\ pc = Idle

NextStore ==
    \/ \E u \in Users : ShowLists(u)
    \/ \E u \in Users, id \in ChecklistIds : ChatView(u, id)
    \/ \E u \in Users, id \in ChecklistIds : ChatEdit(u, id)
    \/ \E u \in Users, id \in ChecklistIds, category \in ListedCategories :
          ChatCategory(u, id, category)
    \/ \E u \in Users, id \in ChecklistIds : ChatAddItem(u, id)
    \/ \E u \in Users, id \in ChecklistIds : ChatAddToCategory(u, id)
    \/ \E u \in Users, item_id \in ItemIds : ChatDeleteItem(u, item_id)
    \/ \E u \in Users, id \in ChecklistIds : ChatShare(u, id)
    \/ \E v \in Users, id \in ChecklistIds : WebView(v, id)
    \/ \E v \in Users, id \in ChecklistIds : WebEdit(v, id)
    \/ \E v \in Users, id \in ChecklistIds, item_name \in FormItems, category \in FormCategories :
          WebAddItem(v, id, item_name, category)
    \/ \E v \in Users, id \in ChecklistIds, item_id \in ItemIds : WebDeleteItem(v, id, item_id)
    \/ \E v \in Users, id \in ChecklistIds, category \in FormCategories :
          WebAddCategory(v, id, category)
    \/ \E v \in Users, id \in ChecklistIds, category \in FormCategories :
          WebDeleteCategory(v, id, category)
    \/ \E v \in Users, id \in ChecklistIds : WebShare(v, id)

SpecStore == InitStore /\ [][NextStore]_vars

----------------------------------------------------------------------------
(* properties of the persistence block (SpecPersist) *)

\* the items the running block has generated and not yet stored
PendingOf(id) ==
    IF pc # Idle /\ pc.checklist_id = id THEN pc.items ELSE <<>>

\* the step was a reader (web viewer, list or view handler) that showed the
\* checklist row id
ReadOf(id) ==
    /\ last'.name \in {"view", "my_lists"}
    /\ \E shown \in last'.content : \E c \in shown.checklists : c.id = id

\* the step was the item write of the running block and it failed
ItemWriteFailed ==
    /\ pc # Idle /\ pc' = Idle
    /\ last'.name = "save_items" /\ last'.reply # "checklist_ready"

\* C8: checklist persistence is atomic. No reader (the web viewer, the list
\* and view handlers) is shown a checklist row while generated items of it
\* are not stored, and when the write of the items fails the checklist row of
\* that conversation does not remain stored.
C8_PersistenceAtomic ==
    [][ /\ \A id \in ChecklistIds : ReadOf(id) => PendingOf(id) = <<>>
        /\ ItemWriteFailed => ChecklistById(db', pc.checklist_id) = {} ]_vars

----------------------------------------------------------------------------
(* properties of the entry points (SpecStore) *)

\* the read and mutate entry points on a checklist
EntryPoints ==
    ({"chat"} \X {"view", "edit", "category", "add_item", "delete_item"})
    \cup ({"web"} \X {"view", "edit", "add_item", "delete_item", "add_category",
                      "delete_category"})

\* User.id of the acting user, when the store knows the user
ResolvedIds(u) == {r.id : r \in {x \in db.users : x.telegram_id = u}}

\* C9: every read or mutate entry point on a checklist (chat view, edit,
\* category listing, add-item, delete-item; web view, edit, add-item,
\* delete-item, add-category, delete-category), asked by a user whose resolved
\* User.id is not the checklist's owner_id, answers with a no-access failure,
\* discloses nothing of the checklist and changes no stored row.
C9_OwnershipEnforced ==
    [][ \A c \in db.checklists :
          ( /\ <<last'.kind, last'.name>> \in EntryPoints
            /\ last'.checklist = c.id
            /\ c.owner_id \notin ResolvedIds(last'.user) )
          => /\ last'.reply = "no_access"
             /\ last'.content = None
             /\ db' = db ]_vars

----------------------------------------------------------------------------
(* further properties of the trip conversation (Spec) *)

\* the trip fields a session may hold
TripFields ==
    {"destination", "start_date", "start_date_obj", "duration", "weather_info",
     "aggregated_weather", "original_trip_purpose", "trip_type"}

\* the step handled /cancel of user u inside the trip flow
Cancelled(u) ==
    /\ conv[u] # END
    /\ last'.user = u /\ last'.kind = "command" /\ last'.name = "cancel"

\* C11: an explicit cancel command in any state of the trip flow ends the flow
\* and, in the same step, clears the session: no trip field (destination,
\* start date, duration, weather, purpose) remains.
C11_CancelClearsSession ==
    [][ \A u \in Users :
          Cancelled(u) => /\ conv'[u] = END
                          /\ DOMAIN user_data'[u] \cap TripFields = {} ]_vars

----------------------------------------------------------------------------
(* main.py trip_conv_handler, built with the defaults per_chat and per_user:
   one user talking to the bot in two chats (a private chat and a group) has
   one conversation state per chat and a single context.user_data.  Here conv
   is indexed by the chat, user_data holds the session of that one user, and
   the field user of last names the chat of the update *)

Chats == {1, 2}

\* the user of both chats
Owner == 1

ChatDateTexts == {D_01_03_2026, D_iso, D_27_02_2026}

ChatDurationTexts == {N_5, N_0, N_abc}

ChatWeatherOutcomes == {w \in WeatherOutcomes : w.kind \in {"ok", "network_failure"}}

ApplyIn(c, res) ==
    /\ conv' = [conv EXCEPT ![c] = NewState(conv[c], res)]
    /\ user_data' = [user_data EXCEPT ![Owner] = res.ud]
    /\ UNCHANGED <<now, db, gen, pc>>

NewTripIn(c) ==
    /\ conv[c] = END
    /\ LET res == new_trip(user_data[Owner])
       IN  /\ ApplyIn(c, res)
           /\ last' = Handled(c, "command", "newtrip", <<>>, "new_trip", res.reply, "none")

DestinationIn(c, t) ==
    /\ conv[c] = WAITING_DESTINATION
    /\ LET res == handle_destination(user_data[Owner], t)
       IN  /\ ApplyIn(c, res)
           /\ last' = Handled(c, "text", "", t, "handle_destination", res.reply, "none")

StartDateIn(c, t) ==
    /\ conv[c] = WAITING_START_DATE
    /\ LET res == handle_start_date(user_data[Owner], t, now)
       IN  /\ ApplyIn(c, res)
           /\ last' = Handled(c, "text", "", t, "handle_start_date", res.reply, "none")

DurationIn(c, t, outcome) ==
    /\ conv[c] = WAITING_DURATION
    /\ LET res == handle_duration(user_data[Owner], t, outcome)
       IN  /\ ApplyIn(c, res)
           /\ last' = Handled(c, "text", "", t, "handle_duration", res.reply, outcome.kind)

TripTypeButtonIn(c) ==
    /\ conv[c] = WAITING_TRIP_TYPE
    /\ LET res == handle_trip_type_callback(user_data[Owner])
       IN  /\ ApplyIn(c, res)
           /\ last' = Handled(c, "callback", "trip_beach", <<>>, "handle_trip_type",
                              res.reply, "none")

CancelIn(c) ==
    /\ conv[c] # END
    /\ LET res == cancel(user_data[Owner])
       IN  /\ ApplyIn(c, res)
           /\ last' = Handled(c, "command", "cancel", <<>>, "cancel", res.reply, "none")

InitChats ==
    /\ now = ClockStart
    /\ conv = [c \in Chats |-> END]
    /\ user_data = [u \in {Owner} |-> EmptyDict]
    /\ last = Handled(0, "init", "", <<>>, "none", "none", "none")
    /\ db = EmptyDb
    /\ gen = NoCall
    /\ pc = Idle

NextChats ==
    \/ \E c \in Chats : NewTripIn(c)
    \/ \E c \in Chats, t \in Destinations : DestinationIn(c, t)
    \/ \E c \in Chats, t \in ChatDateTexts : StartDateIn(c, t)
    \/ \E c \in Chats, t \in ChatDurationTexts, w \in ChatWeatherOutcomes : DurationIn(c, t, w)
    \/ \E c \in Chats : TripTypeButtonIn(c)
    \/ \E c \in Chats : CancelIn(c)

SpecChats == InitChats /\ [][NextChats]_vars

----------------------------------------------------------------------------
(* properties of the session shared by the chats of one user (SpecChats) *)

\* the session fields each step handler needs from the steps before it
UpstreamOf(handler) ==
    CASE handler = "handle_start_date" -> {"destination"}
      [] handler = "handle_duration" -> {"destination", "start_date"}
      [] handler = "handle_trip_type" -> {"destination", "start_date", "duration"}
      [] OTHER -> {}

\* the step ran a step handler in chat c on a session that lacks a field the
\* handler needs
RanWithoutUpstream(c) ==
    /\ last'.user = c
    /\ last'.handler \in {"handle_start_date", "handle_duration", "handle_trip_type"}
    /\ ~(UpstreamOf(last'.handler) \subseteq DOMAIN user_data[Owner])

\* C12: a step handler (start date, duration, purpose) that runs while a
\* required upstream session field is missing aborts the flow: it tells the
\* user to restart, clears the session, ends the conversation and stores
\* nothing derived from the missing field.
C12_MissingUpstreamAborts ==
    [][ \A c \in Chats :
          RanWithoutUpstream(c) => /\ last'.reply = "generic_error"
                                   /\ user_data'[Owner] = EmptyDict
                                   /\ conv'[c] = END ]_vars

\* the trip fields of a session are populated in step order
InStepOrder(ud) ==
    /\ Has(ud, "start_date") => Has(ud, "destination")
    /\ Has(ud, "duration") => Has(ud, "start_date")
    /\ (Has(ud, "original_trip_purpose") \/ Has(ud, "trip_type")) => Has(ud, "duration")

\* C13: in every reachable session state the trip fields are populated in
\* step order: start_date only with destination, duration only with
\* start_date, the purpose fields only with duration.
C13_FieldsInStepOrder == \A u \in DOMAIN user_data : InStepOrder(user_data[u])

----------------------------------------------------------------------------
(* validation errors of the trip conversation (Spec) *)

\* the text is no DD.MM.YYYY date of the calendar, or a day that began before
\* the clock
RejectedDate(text, clock) ==
    \A d \in RealDates : d[1] = text => d[2] * TicksPerDay < clock

\* C14: a validation error (malformed or past date, non-numeric or
\* non-positive duration) loses nothing: the conversation stays in its state
\* and every session field keeps the value it had.
C14_ValidationKeepsSession ==
    [][ \A u \in Users :
          ( /\ TextFrom(u)
            /\ \/ conv[u] = WAITING_START_DATE /\ RejectedDate(last'.text, now)
               \/ conv[u] = WAITING_DURATION /\ ~IsPositiveInt(last'.text) )
          => /\ conv'[u] = conv[u]
             /\ user_data'[u] = user_data[u] ]_vars

\* "0" days was refused and the destination and the date are still there
C14_Witness ==
    /\ last.handler = "handle_duration"
    /\ last.text = N_0
    /\ last.reply = "duration_invalid"
    /\ conv[last.user] = WAITING_DURATION
    /\ DOMAIN user_data[last.user] = {"destination", "start_date", "start_date_obj"}

----------------------------------------------------------------------------
(* failures of the persistence block (SpecPersist) *)

\* the step was a write of the block for user u (checklist row or items)
\* and it failed
StoreFailed(u) ==
    /\ last'.user = u
    /\ last'.kind = "bot"
    /\ last'.name \in {"save_checklist", "save_items"}
    /\ last'.reply \notin {"committed", "checklist_ready"}
    /\ last' # last

\* C15: when storing the checklist or any of its items fails during the
\* purpose step, the failure is flow-fatal: next to the apology the user is
\* sent, the session is cleared and the conversation ends.
C15_StoreFailureFatal ==
    [][ \A u \in Users :
          StoreFailed(u) => /\ conv'[u] = END
                            /\ user_data'[u] = EmptyDict ]_vars

----------------------------------------------------------------------------
(* services/llm_client.py: LLMClient.classify_trip_purpose, and the purpose
   catalog it works on (init_base_trip_purposes.py, handlers.py 281-334) *)

K_sightseeing == <<115, 105, 103, 104, 116, 115, 101, 101, 105, 110, 103>>

K_hiking == <<104, 105, 107, 105, 110, 103>>

K_cruise == <<99, 114, 117, 105, 115, 101>>

K_cultural == <<99, 117, 108, 116, 117, 114, 97, 108>>

K_wellness == <<119, 101, 108, 108, 110, 101, 115, 115>>

K_education == <<101, 100, 117, 99, 97, 116, 105, 111, 110>>

K_sports == <<115, 112, 111, 114, 116, 115>>

K_religious == <<114, 101, 108, 105, 103, 105, 111, 117, 115>>

K_family == <<102, 97, 109, 105, 108, 121>>

K_medical == <<109, 101, 100, 105, 99, 97, 108>>

\* "Diving"
Diving_cap == <<68, 105, 118, 105, 110, 103>>

\* init_base_trip_purposes.py, lines 24-39: the names of the base purposes
BasePurposeNames ==
    <<K_beach, K_business, K_active, K_sightseeing, K_hiking,
      K_cruise, K_cultural, K_wellness, K_education, K_sports,
      K_religious, K_family, K_medical, K_other>>

\* a row of the catalog: name, is_base (the description plays no part)
PurposeRow(id, name, is_base) == [id |-> id, name |-> name, is_base |-> is_base]

\* filter_by(name=...): the rows whose name is the given one, compared as the
\* strings are
PurposeByName(purposes, name) == {r \in purposes : r.name = name}

\* lines 43-51: every base purpose is looked up by name and added when absent
RECURSIVE AddBasePurposes(_, _)
AddBasePurposes(purposes, k) ==
    IF k > Len(BasePurposeNames) THEN purposes
    ELSE LET name == BasePurposeNames[k]
             next == IF PurposeByName(purposes, name) # {} THEN purposes
                     ELSE purposes \cup {PurposeRow(NextId(purposes), name, TRUE)}
         IN  AddBasePurposes(next, k + 1)

init_trip_purposes(purposes) == AddBasePurposes(purposes, 1)

\* a JSON object of the model's answer, or a result of the classifier: the
\* keys it has and their values
Answer(keys, error, matched_category, is_new_category, new_category_name) ==
    [keys |-> keys, error |-> error, matched_category |-> matched_category,
     is_new_category |-> is_new_category, new_category_name |-> new_category_name]

ClassificationKeys ==
    {"matched_category", "is_new_category", "new_category_name", "new_category_description"}

ErrorAnswer(reason) == Answer({"error"}, Some(reason), None, FALSE, None)

\* lines 458-463, 471-476, 488-493, 502-507
FallbackOther == Answer(ClassificationKeys, None, Some(K_other), FALSE, None)

Matched(name) == Answer(ClassificationKeys, None, Some(name), FALSE, None)

Proposed(name) == Answer(ClassificationKeys, None, None, TRUE, Some(name))

\* _extract_json_from_text (lines 125-163) on a text of the model.  "fenced":
\* the object stands in a ```json block; "bare": it stands in the text as it
\* is, and is taken only when it has the key 'categories'; anything else is
\* no JSON
extract_json_from_text(content) ==
    IF content.form = "fenced" THEN content.object
    ELSE IF content.form = "bare" /\ "categories" \in content.object.keys
    THEN content.object
    ELSE ErrorAnswer("Failed to extract valid JSON from response")

\* classify_trip_purpose(user_input, base_purposes): has_key is self.api_key,
\* outcome what the provider did.  Nothing leaves the function as an
\* exception: line 371 is before the try block and raises nothing, the rest
\* stands under "except Exception" (line 495).
classify_trip_purpose(has_key, outcome) ==
    IF ~has_key THEN ErrorAnswer("OpenAI API key not provided")
    ELSE IF RequestError(outcome.kind) # None
    THEN ErrorAnswer(CHOOSE e \in RequestError(outcome.kind) : TRUE)
    ELSE IF outcome.kind = "no_choices" THEN FallbackOther
    \* choices[0] without 'message': KeyError, caught at line 495
    ELSE IF outcome.kind = "no_message" THEN FallbackOther
    ELSE LET result == extract_json_from_text(outcome.content)
         IN  IF "error" \in result.keys THEN FallbackOther
             ELSE IF "matched_category" \notin result.keys
                     /\ "is_new_category" \notin result.keys
             THEN FallbackOther
             ELSE result

\* handlers.py, lines 309-331: the category of the trip.  A proposed category
\* is looked up by its name and added when no row has that name.
ResolvePurpose(purposes, result) ==
    IF result.is_new_category /\ result.new_category_name # None
    THEN LET new_name == CHOOSE n \in result.new_category_name : TRUE
         IN  [purposes |-> IF PurposeByName(purposes, new_name) # {} THEN purposes
                           ELSE purposes \cup {PurposeRow(NextId(purposes), new_name, FALSE)},
              trip_type |-> Some(new_name)]
    ELSE [purposes |-> purposes,
          trip_type |-> IF "matched_category" \in result.keys
                        THEN result.matched_category ELSE Some(K_other)]

----------------------------------------------------------------------------
(* the purpose step up to line 334, and the seeding script *)

\* what the model may have written
ClassifierObjects ==
    {Matched(K_beach), Proposed(K_diving), Proposed(Diving_cap), Proposed(K_beach),
     Proposed(Beach_cap),
     \* an object with none of the expected keys
     Answer({"category"}, None, None, FALSE, None),
     \* every field null or false
     Answer(ClassificationKeys, None, None, FALSE, None),
     \* a new category announced without a name
     Answer(ClassificationKeys, None, None, TRUE, None),
     \* a match with a name the catalog does not hold
     Matched(K_diving)}

ClassifierFailureKinds ==
    {"rate_limit", "invalid_request", "api_error", "timeout", "http_error",
     "no_choices", "no_message"}

NoContent == [form |-> "none", object |-> Answer({}, None, None, FALSE, None)]

ClassifierOutcomes ==
    {[kind |-> k, content |-> NoContent] : k \in ClassifierFailureKinds}
    \cup {[kind |-> "text", content |-> [form |-> f, object |-> o]] :
             f \in {"fenced", "bare"}, o \in ClassifierObjects}
    \cup {[kind |-> "text", content |-> [form |-> "garbage", object |-> NoContent.object]]}

\* python init_base_trip_purposes.py
SeedPurposes ==
    /\ db' = [db EXCEPT !.purposes = init_trip_purposes(@)]
    /\ gen' = [phase |-> "seeded"]
    /\ UNCHANGED <<now, conv, user_data, last, pc>>

\* lines 272-334 of handle_trip_type for user u: the catalog is read and
\* seeded when empty, the purpose is classified, the category is stored
ClassifyPurpose(u, has_key, outcome) ==
    /\ conv[u] = WAITING_TRIP_TYPE
    /\ LET base_purposes == IF db.purposes = {} THEN init_trip_purposes(db.purposes)
                            ELSE db.purposes
           result == classify_trip_purpose(has_key, outcome)
           resolved == ResolvePurpose(base_purposes, result)
       IN  /\ db' = [db EXCEPT !.purposes = resolved.purposes]
           /\ gen' = [phase |-> "classified", user |-> u, has_key |-> has_key,
                      outcome |-> outcome, result |-> result,
                      before |-> base_purposes]
           /\ user_data' = [user_data EXCEPT ![u] =
                  Put(Put(@, "original_trip_purpose", P_beach), "trip_type", resolved.trip_type)]
    /\ UNCHANGED <<now, conv, last, pc>>

InitPurpose ==
    /\ now = ClockStart
    /\ conv = [u \in Users |-> WAITING_TRIP_TYPE]
    /\ user_data = [u \in Users |-> TripSession]
    /\ last = StoreOp(0, "init", "", 0, "none", None)
    /\ db = [purposes |-> {}]
    /\ gen = NoCall
    /\ pc = Idle

NextPurpose ==
    \/ SeedPurposes
    \/ \E u \in Users, has_key \in BOOLEAN, outcome \in ClassifierOutcomes :
          ClassifyPurpose(u, has_key, outcome)

SpecPurpose == InitPurpose /\ [][NextPurpose]_vars

----------------------------------------------------------------------------
(* properties of the purpose classifier (SpecPurpose) *)

Classified == gen.phase = "classified"

\* the call met an extraction, parse or provider failure: no credential, an
\* error of the provider, no choices, a text that holds no JSON object, an
\* object without the expected fields
ClassifyFailed ==
    \/ ~gen.has_key
    \/ gen.outcome.kind \in ClassifierFailureKinds
    \/ /\ gen.outcome.kind = "text"
       /\ \/ gen.outcome.content.form # "fenced"
          \/ gen.outcome.content.object.keys \cap ClassificationKeys = {}

\* C16: classify_trip_purpose never raises and, for every extraction, parse
\* or provider failure (missing credential, provider error response, no
\* choices, malformed text, missing fields), returns a result whose
\* matched_category is "other".
C16_ClassifyFallsBackToOther ==
    (Classified /\ ClassifyFailed) =>
        /\ "matched_category" \in gen.result.keys
        /\ gen.result.matched_category = Some(K_other)

\* the same for the failures of the text alone: no choices, no message, no
\* JSON, no expected field
C16_TextFailuresFallBack ==
    (Classified /\ ClassifyFailed /\ gen.has_key
        /\ RequestError(gen.outcome.kind) = None) =>
        gen.result = FallbackOther

\* C17: the TripPurpose catalog holds no two entries whose names are equal
\* after case normalization; a proposed category whose name matches an
\* existing entry up to case reuses that entry and inserts nothing.
C17_CatalogCaseUnique ==
    \A a, b \in db.purposes : a # b => LowerText(a.name) # LowerText(b.name)

\* the same for names equal as they are written
C17_CatalogNameUnique ==
    \A a, b \in db.purposes : a # b => a.name # b.name

----------------------------------------------------------------------------
(* the user table (SpecPersist) *)

\* the step was a handler of user u that resolves the user row: the purpose
\* step or the list view
Interacted(u) ==
    /\ last'.user = u
    /\ last'.name \in {"resolve_user", "my_lists"}

\* C18: after any interleaving of handler steps of the users (purpose step,
\* list view) the user table holds exactly one row per chat identity that has
\* interacted: no telegram_id ever has two rows, a handler that resolved its
\* user leaves exactly one row of it, and no row goes away.
C18_OneRowPerIdentity ==
    [][ /\ \A u \in Users : Cardinality(UserByTelegram(db', u)) <= 1
        /\ \A u \in Users : Interacted(u) => Cardinality(UserByTelegram(db', u)) = 1
        /\ db.users \subseteq db'.users ]_vars

\* both users are known, and the purpose step has just resolved a user who
\* already owns a stored checklist
C18_Witness ==
    /\ last.name = "resolve_user"
    /\ Cardinality(db.users) = 2
    /\ \E r \in UserByTelegram(db, last.user) :
           \E c \in db.checklists : c.owner_id = r.id

----------------------------------------------------------------------------
(* services/llm_client.py, lines 51-95: _make_openai_request under its retry
   decorator *)

\* stop_after_attempt(3)
StopAfterAttempt == 3

\* wait_exponential(multiplier=1, min=2, max=30)
WaitMin == 2

WaitMax == 30

\* the exceptions the decorator retries on
RetriedExceptions == {"httpx.HTTPError", "json.JSONDecodeError"}

\* the seconds tenacity waits after the failed attempt n: 2^(n-1), kept
\* between min and max
WaitAfter(n) ==
    LET exp == 2 ^ (n - 1)
    IN  IF exp < WaitMin THEN WaitMin ELSE IF exp > WaitMax THEN WaitMax ELSE exp

\* lines 58-95, one run of the body for what the provider did: every
\* exception is caught inside (the last clause is "except Exception") and
\* answered with {"error": ...}, so the body raises nothing
RequestBody(kind) ==
    [raised |-> FALSE, exception |-> "none", error |-> RequestError(kind)]

\* the decorator around the body: the attempt n is made; when it raised an
\* exception of the retried types and attempts are left, the next one follows
\* after the wait
RECURSIVE Retrying(_, _, _)
Retrying(outcomes, n, waits) ==
    LET r == RequestBody(outcomes[n])
    IN  IF r.raised /\ r.exception \in RetriedExceptions /\ n < StopAfterAttempt
        THEN Retrying(outcomes, n + 1, Append(waits, WaitAfter(n)))
        ELSE [attempts |-> n, waits |-> waits, raised |-> r.raised, error |-> r.error]

\* _make_openai_request(messages); outcomes[n] is what the provider does with
\* the n-th attempt
make_openai_request(outcomes) == Retrying(outcomes, 1, <<>>)

\* failures that pass: a rate limit, an error of the provider, a timeout, a
\* transport error, an undecodable body
TransientKinds == {"rate_limit", "api_error", "timeout", "http_error", "decode_error"}

RequestKinds == {"ok", "invalid_request"} \cup TransientKinds

RequestCall(outcomes) ==
    /\ gen.phase = "idle"
    /\ gen' = [phase |-> "requested", outcomes |-> outcomes,
               result |-> make_openai_request(outcomes)]
    /\ UNCHANGED <<now, conv, user_data, last, db, pc>>

NextRequest ==
    \E outcomes \in [1..StopAfterAttempt -> RequestKinds] : RequestCall(outcomes)

SpecRequest == InitGen /\ [][NextRequest]_vars

\* the attempt at which a call of these outcomes is settled: the first one
\* that does not fail transiently, the last one when all do
RECURSIVE SettledAt(_, _)
SettledAt(outcomes, n) ==
    IF n < StopAfterAttempt /\ outcomes[n] \in TransientKinds
    THEN SettledAt(outcomes, n + 1)
    ELSE n

\* C19: a request that fails with a transient provider or decoding error is
\* attempted again, after a delay that does not shrink, up to 3 attempts in
\* all: a success on any attempt stops the retries, and the call is reported
\* as failed only when the attempt that settles it failed.
C19_TransientErrorsRetried ==
    gen.phase = "requested" =>
        LET n == SettledAt(gen.outcomes, 1)
        IN  /\ gen.result.attempts = n
            /\ Len(gen.result.waits) = n - 1
            /\ \A k \in 1..(n - 2) : gen.result.waits[k] <= gen.result.waits[k + 1]
            /\ (gen.result.error = None /\ ~gen.result.raised) <=> gen.outcomes[n] = "ok"

\* without a transient failure at the first attempt the call is settled by
\* that attempt
C19_FirstAttemptSettles ==
    (gen.phase = "requested" /\ gen.outcomes[1] \notin TransientKinds) =>
        /\ gen.result.attempts = 1
        /\ gen.result.error = None <=> gen.outcomes[1] = "ok"

----------------------------------------------------------------------------
(* what the generator hands to persistence (SpecGen) *)

\* the mapping has a category, and some category lists an item
HasItems(categories) ==
    /\ categories # <<>>
    /\ \E c \in DOMAIN categories : categories[c][2] # <<>>

\* C20: for all inputs and all outcomes of the model and of the weather the
\* result of generate_travel_checklist has a non-empty categories mapping
\* with at least one item, on the model path and on the rule path.
C20_ResultHasItems ==
    Returned => /\ ~gen.result.raised
                /\ HasItems(gen.result.categories)

\* the same for the rule path alone
C20_RulePathHasItems ==
    (Returned /\ gen.result.generated_by = "rules") =>
        /\ HasItems(gen.result.categories)
        /\ \A c \in DOMAIN gen.result.categories : gen.result.categories[c][2] # <<>>

\* on the model path the mapping itself is never empty
C20_ModelPathMappingNonEmpty ==
    (Returned /\ gen.result.generated_by = "llm") => gen.result.categories # <<>>

----------------------------------------------------------------------------
(* two users at once: the conversation steps of main.py 266-292 and, entered
   as in SpecPersist, the purpose step of handlers.py 272-429.  One
   ChecklistHandlers object and one Session serve every user (main.py
   262-263); the handlers keep nothing of a user on them (handlers.py 22-27) *)

\* "Oslo"
Oslo == <<79, 115, 108, 111>>

UserDestinations == {Lisbon, Oslo}

UserWeatherOutcomes == {[kind |-> "ok", samples |-> ForecastA]}

UserClassifierOutcomes ==
    {[kind |-> "text", content |-> [form |-> "fenced", object |-> Matched(K_beach)]]}

UserCategories == <<<<CatDocuments, <<Pasport>>>>>>

\* an update of the conversation is handled while no other handler runs
ConversationStep(u) ==
    /\ pc = Idle
    /\ \/ NewTripCommand(u)
       \/ \E t \in UserDestinations : DestinationText(u, t)
       \/ StartDateText(u, D_01_03_2026)
       \/ \E w \in UserWeatherOutcomes : DurationText(u, N_5, w)

\* lines 272-334, once per trip
PurposeEntered(u) ==
    /\ pc = Idle
    /\ ~Has(user_data[u], "trip_type")
    /\ \E outcome \in UserClassifierOutcomes : ClassifyPurpose(u, TRUE, outcome)

\* lines 353-429, after the category is stored
PersistStep(u) ==
    \/ Has(user_data[u], "trip_type") /\ ResolveUser(u)
    \/ Has(user_data[u], "trip_type") /\ SaveChecklist(u, UserCategories)
    \/ pc # Idle /\ pc.user = u /\ SaveItems

InitUsers ==
    /\ now = ClockStart
    /\ conv = [u \in Users |-> END]
    /\ user_data = [u \in Users |-> EmptyDict]
    /\ last = Handled(0, "init", "", <<>>, "none", "none", "none")
    /\ db = [users |-> {}, checklists |-> {}, items |-> {}, purposes |-> {}]
    /\ gen = NoCall
    /\ pc = Idle

NextUsers ==
    \/ \E u \in Users : ConversationStep(u)
    \/ \E u \in Users : PurposeEntered(u)
    \/ \E u \in Users : PersistStep(u)

SpecUsers == InitUsers /\ [][NextUsers]_vars

\* the step was a handler run for user a; the classification leaves no
\* trace in last
ActedBy(a) ==
    IF last' # last THEN last'.user = a
    ELSE gen'.phase = "classified" /\ gen'.user = a

\* C21: sessions of different users are independent.  Under every
\* interleaving of the steps of two users a step of user a leaves the session
\* fields and the conversation state of every other user as they were, only
\* the acting user's session and state change, and a checklist row stored by
\* the step is built from a's session and owned by a's user row.
C21_UsersIndependent ==
    [][ /\ \A a \in Users : ActedBy(a) =>
              \A b \in Users \ {a} :
                  conv'[b] = conv[b] /\ user_data'[b] = user_data[b]
        /\ \A b \in Users :
              (conv'[b] # conv[b] \/ user_data'[b] # user_data[b]) => ActedBy(b)
        /\ \A c \in db'.checklists \ db.checklists :
              \E a \in Users :
                  /\ ActedBy(a)
                  /\ c.title = TripTitle(user_data[a])
                  /\ c.trip_metadata = TripMetadata(user_data[a])
                  /\ \E r \in UserByTelegram(db, a) : c.owner_id = r.id
        /\ \A i \in db'.items \ db.items :
              \E a \in Users : \E r \in UserByTelegram(db, a) :
                  \E c \in ChecklistById(db, i.checklist_id) :
                      ActedBy(a) /\ c.owner_id = r.id ]_vars

\* a checklist was stored for one user while the other was in the middle of a
\* trip to another place
C21_Witness ==
    /\ last.name = "save_checklist"
    /\ \E c \in ChecklistById(db, last.checklist) : \E b \in Users \ {last.user} :
           /\ conv[b] = WAITING_DURATION
           /\ user_data[b]["destination"] # c.trip_metadata.destination
           /\ c.trip_metadata.destination = user_data[last.user]["destination"]

----------------------------------------------------------------------------
(* the duration step on its own: handle_duration run once on the session the
   first two steps leave, for every forecast of up to MaxForecastDays days *)

\* the longest forecast the provider answers with
MaxForecastDays == 3

\* "2"
N_2 == <<50>>

\* what the provider may report for one day: one sample, calm or windy, with
\* no precipitation data, with none fallen or with 1.2 mm, or two samples
DayChoices(d) ==
    {<<Sample(d, 120, w, r, ClearSky)>> : w \in {0, 30}, r \in {Missing, 0, 12}}
    \cup {<<Sample(d, 90, 20, Missing, ClearSky), Sample(d, 180, 50, 12, LightRain)>>}

RECURSIVE ForecastsFrom(_, _)
ForecastsFrom(d, n) ==
    IF d > n THEN {<<>>}
    ELSE {day \o later : day \in DayChoices(d), later \in ForecastsFrom(d + 1, n)}

Forecasts == UNION {ForecastsFrom(1, n) : n \in 1..MaxForecastDays}

StepWeatherOutcomes ==
    {[kind |-> "ok", samples |-> f] : f \in Forecasts}
    \cup {[kind |-> k, samples |-> <<>>] : k \in WeatherFailures}

\* the session in WAITING_DURATION
SessionAtDuration ==
    handle_start_date(handle_destination(EmptyDict, Lisbon).ud, D_01_03_2026, ClockStart).ud

DurationStep(t, outcome) ==
    /\ gen.phase = "idle"
    /\ gen' = [phase |-> "stepped", text |-> t, outcome |-> outcome,
               result |-> handle_duration(SessionAtDuration, t, outcome)]
    /\ UNCHANGED <<now, conv, user_data, last, db, pc>>

NextWeather ==
    \E t \in {N_2, N_5}, outcome \in StepWeatherOutcomes : DurationStep(t, outcome)

SpecWeather == InitGen /\ [][NextWeather]_vars

----------------------------------------------------------------------------
(* properties of the weather summary (SpecWeather) *)

Stepped == gen.phase = "stepped"

\* the samples of day k that carry precipitation data
RainData(samples, k) ==
    {i \in DOMAIN samples : samples[i].day = k /\ samples[i].rain # Missing}

\* C22: every numeric field of the stored weather summary is computed from at
\* least one real sample or is absent; a 0 never stands in for missing data.
\* Per day: a day with no precipitation data has no precipitation figure.
\* Aggregated: without precipitation data on any day there is no total and no
\* average, and without a day every field is absent.
C22_NoZeroForMissing ==
    (Stepped /\ gen.outcome.kind = "ok") =>
        LET ud == gen.result.ud
            daily == ud["weather_info"].daily
            agg == ud["aggregated_weather"]
        IN  /\ \A i \in DOMAIN daily :
                   RainData(gen.outcome.samples, daily[i].date) = {}
                       => "precipitation" \notin DOMAIN daily[i]
            /\ (\A i \in DOMAIN daily : RainData(gen.outcome.samples, daily[i].date) = {})
                   => agg.total_precip = None /\ agg.avg_precip = None

\* the wind and the temperatures of the summary are those of real samples
C22_WindAndTemperatureReal ==
    (Stepped /\ gen.outcome.kind = "ok") =>
        LET ud == gen.result.ud
            daily == ud["weather_info"].daily
            agg == ud["aggregated_weather"]
            samples == gen.outcome.samples
        IN  /\ \A i \in DOMAIN daily :
                   /\ \E k \in DOMAIN samples : samples[k].wind = daily[i].wind_speed
                   /\ \E k \in DOMAIN samples : samples[k].temp = daily[i].temp_min
                   /\ \E k \in DOMAIN samples : samples[k].temp = daily[i].temp_max
            /\ \A w \in agg.max_wind : \E k \in DOMAIN samples : samples[k].wind = w

----------------------------------------------------------------------------
(* web/main.py 71-108 and handlers.py 622-646: the weather of a stored
   checklist as the viewers read it *)

\* weather.get(key): the value, None when the object has no such key
WeatherGet(weather, key) == IF key \in DOMAIN weather THEN weather[key] ELSE None

\* "if weather.get(key)": None, 0 and an empty list do not count
Truthy(value) == value # None /\ value # Some(0)

\* the keys the viewers ask for
ViewedKeys ==
    {"day_temp_range", "night_temp_range", "descriptions", "avg_wind", "max_wind",
     "avg_precip", "total_precip"}

\* what a viewer shows of the object: per key the value it prints, None when
\* it prints nothing.  max_wind is shown only next to avg_wind, total_precip
\* only next to avg_precip.
ViewWeather(weather) ==
    LET Seen(key) == IF Truthy(WeatherGet(weather, key)) THEN WeatherGet(weather, key)
                     ELSE None
    IN  [key \in ViewedKeys |->
            IF key = "max_wind" /\ Seen("avg_wind") = None THEN None
            ELSE IF key = "total_precip" /\ Seen("avg_precip") = None THEN None
            ELSE IF key = "descriptions" THEN WeatherGet(weather, key)
            ELSE Seen(key)]

\* lines 389-401: the object as handle_trip_type stores it in trip_metadata
StoredWeather(ud) ==
    TripMetadata(Put(Put(ud, "original_trip_purpose", P_beach), "trip_type", "beach"))
        .aggregated_weather

TemperatureKeys == {"avg_temp_min", "avg_temp_max", "day_temp_range", "night_temp_range"}

\* the summary of a forecast was stored
SummaryStored ==
    /\ Stepped
    /\ Has(gen.result.ud, "aggregated_weather")
    /\ gen.outcome.kind = "ok"

\* C23: round trip of the weather summary.  Read back by the viewers, the
\* aggregated_weather object stored in trip_metadata yields the temperature
\* ranges and the description set that were stored: every temperature field
\* of the stored object is asked for and shown with its value.
C23_WeatherRoundTrip ==
    SummaryStored =>
        LET stored == StoredWeather(gen.result.ud)
            view == ViewWeather(stored)
        IN  /\ view["descriptions"] = stored.descriptions
            /\ \A key \in DOMAIN stored \cap TemperatureKeys :
                   key \in ViewedKeys /\ view[key] = stored[key]

\* the description set comes back as stored
C23_DescriptionsRoundTrip ==
    SummaryStored =>
        ViewWeather(StoredWeather(gen.result.ud))["descriptions"]
            = gen.result.ud["aggregated_weather"].descriptions

----------------------------------------------------------------------------
(* the purpose-driven items of the rule-based list (SpecGen) *)

\* the category the purpose of the call is classified as: the free text
\* "beach vacation" as beach, a category name as itself
ClassifiedCategory(purpose) ==
    IF purpose = P_beach THEN K_beach ELSE LowerText(purpose)

RuleBasedReturned == Returned /\ ~gen.result.raised /\ gen.result.generated_by = "rules"

\* C24: in the rule-based fallback the purpose-driven items are selected by
\* the classified category, not by the raw text: the list holds every item of
\* the category the purpose is classified as, alongside the baseline items;
\* an unknown category yields no purpose items and no error.
C24_PurposeItemsByCategory ==
    RuleBasedReturned =>
        LET items == GetPurposeSpecificItems(ClassifiedCategory(gen.purpose))
        IN  /\ \A k \in DOMAIN items : Listed(gen.result.categories, items[k])
            /\ \A b \in DOMAIN BaselineItems : Listed(gen.result.categories, BaselineItems[b])

\* a purpose that is the name of a category, in any case, brings the items of
\* the category; an unknown one brings none and no error
C24_CategoryNameSelects ==
    (RuleBasedReturned /\ gen.purpose # P_beach) =>
        LET items == GetPurposeSpecificItems(ClassifiedCategory(gen.purpose))
        IN  /\ \A k \in DOMAIN items : Listed(gen.result.categories, items[k])
            /\ \A b \in DOMAIN BaselineItems : Listed(gen.result.categories, BaselineItems[b])
            /\ gen.purpose = K_diving =>
                   /\ items = <<>>
                   /\ \A c \in DOMAIN gen.result.categories :
                          Members(gen.result.categories[c][2]) \subseteq
                              Members(GetPackingSuggestions(WeatherOfCall))
                                  \cup Members(GetDurationSpecificItems(gen.duration))

----------------------------------------------------------------------------
(* _get_duration_specific_items on its own, for every duration the
   conversation lets through *)

\* the longest trip looked at
MaxDuration == 60

DurationItemsCall ==
    /\ gen.phase = "duration"
    /\ gen' = [phase |-> "items", duration |-> gen.duration,
               items |-> GetDurationSpecificItems(gen.duration)]
    /\ UNCHANGED <<now, conv, user_data, last, db, pc>>

InitDuration ==
    /\ now = ClockStart
    /\ conv = [u \in Users |-> END]
    /\ user_data = [u \in Users |-> EmptyDict]
    /\ last = Handled(0, "init", "", <<>>, "none", "none", "none")
    /\ db = EmptyDb
    /\ gen \in {[phase |-> "duration", duration |-> d] : d \in 1..MaxDuration}
    /\ pc = Idle

NextDuration == DurationItemsCall

SpecDuration == InitDuration /\ [][NextDuration]_vars

\* C25: for every positive duration d the duration-driven items hold the three
\* ">7-day" additions if and only if d > 7 and the three ">14-day" additions
\* if and only if d > 14, and nothing else; for d = 12 the first group is
\* there and the second is not.
C25_DurationBands ==
    gen.phase = "items" =>
        LET items == Members(gen.items)
        IN  /\ \A k \in DOMAIN Over7Items : Over7Items[k] \in items <=> gen.duration > 7
            /\ \A k \in DOMAIN Over14Items : Over14Items[k] \in items <=> gen.duration > 14
            /\ items \subseteq Members(Over7Items) \cup Members(Over14Items)
            /\ Len(Over7Items) = 3 /\ Len(Over14Items) = 3
            /\ gen.duration = 12 => items = Members(Over7Items)

\* twelve days: the first group alone
C25_Witness ==
    /\ gen.phase = "items"
    /\ gen.duration = 12
    /\ gen.items = Over7Items

----------------------------------------------------------------------------
(* _categorize_items on its own: two runs over one set of titles, each in an
   iteration order of its own *)

\* the largest set of titles handed over
MaxSetSize == 3

\* titles that go to documents, clothes (three of them), electronics and the
\* last bucket; BusinessItems[5] holds a keyword of electronics and one of
\* accessories
CategorizePool ==
    {BasicTravelItems[1], BasicTravelItems[10], BasicTravelItems[11],
     ColdItems[5], BasicTravelItems[4], BusinessItems[5], ActiveItems[4]}

\* the orders in which a for loop can meet the members of a set
IterationOrders(S) ==
    {s \in [1..Cardinality(S) -> S] : \A i, j \in DOMAIN s : i # j => s[i] # s[j]}

CategorizeTwice(first, second) ==
    /\ gen.phase = "items"
    /\ gen' = [phase |-> "categorized", items |-> gen.items,
               first |-> first, second |-> second,
               runs |-> <<CategorizeSeen(first), CategorizeSeen(second)>>]
    /\ UNCHANGED <<now, conv, user_data, last, db, pc>>

InitCategorize ==
    /\ now = ClockStart
    /\ conv = [u \in Users |-> END]
    /\ user_data = [u \in Users |-> EmptyDict]
    /\ last = Handled(0, "init", "", <<>>, "none", "none", "none")
    /\ db = EmptyDb
    /\ gen \in {[phase |-> "items", items |-> S] :
                    S \in {T \in SUBSET CategorizePool : Cardinality(T) <= MaxSetSize}}
    /\ pc = Idle

NextCategorize ==
    \E first \in IterationOrders(gen.items), second \in IterationOrders(gen.items) :
        CategorizeTwice(first, second)

SpecCategorize == InitCategorize /\ [][NextCategorize]_vars

Categorized == gen.phase = "categorized"

\* C26: two runs of _categorize_items over one set of titles give every title
\* the same category and every category the same alphabetical order, whatever
\* the order in which each run met the titles.
C26_CategorizeDeterministic ==
    Categorized =>
        /\ gen.runs[1] = gen.runs[2]
        /\ \A c \in DOMAIN gen.runs[1] :
              LET titles == gen.runs[1][c][2]
              IN  \A i, j \in DOMAIN titles : i < j => TextLess(titles[i], titles[j])

\* two runs that met three titles of one category in different orders
C26_Witness ==
    /\ Categorized
    /\ gen.first # gen.second
    /\ \E c \in DOMAIN gen.runs[1] : Len(gen.runs[1][c][2]) = 3

----------------------------------------------------------------------------
(* The rule-based list as a partition *)

\* the rules with a keyword inside the lowered title
RulesHit(title) ==
    {r \in DOMAIN CategorizationRules :
        \E k \in DOMAIN CategorizationRules[r][2] :
            Contains(CategorizationRules[r][2][k], LowerText(title))}

RulesHitOfRuleItem == [item \in RuleItems |-> RulesHit(item)]

\* the titles the rule-based path of the observed call put together
CombinedItems ==
    LET wi == IF gen.weather_info = None
              THEN GetWeatherForecast(Lisbon, DefaultDays, gen.wx)
              ELSE CHOOSE w \in gen.weather_info : TRUE
    IN  Members(GetPackingSuggestions(wi)) \cup Members(GetPurposeSpecificItems(gen.purpose))
            \cup Members(GetDurationSpecificItems(gen.duration))

\* the places <<category, index>> at which a title is listed
PlacesOf(categories, title) ==
    {<<c, k>> \in (DOMAIN categories) \X (1..Cardinality(RuleItems)) :
        k \in DOMAIN categories[c][2] /\ categories[c][2][k] = title}

\* C27: the rule-based result is a partition of the deduplicated union of the
\* weather, purpose and duration items: every item is listed exactly once and
\* nothing else is listed; an item is in the first category, in the order of
\* the table, with a keyword inside its lowered title, and in the last bucket
\* when no keyword is; every returned category is non-empty and in ascending
\* order.
C27_RuleResultPartition ==
    RuleBasedReturned =>
        LET cats == gen.result.categories
        IN  /\ \A item \in CombinedItems : Cardinality(PlacesOf(cats, item)) = 1
            /\ \A c \in DOMAIN cats : Members(cats[c][2]) \subseteq CombinedItems
            /\ \A c, d \in DOMAIN cats : c # d => cats[c][1] # cats[d][1]
            /\ \A c \in DOMAIN cats :
                  /\ cats[c][2] # <<>>
                  /\ \A i, j \in DOMAIN cats[c][2] :
                        i < j => TextLess(cats[c][2][i], cats[c][2][j])
                  /\ \A k \in DOMAIN cats[c][2] :
                        LET hits == RulesHitOfRuleItem[cats[c][2][k]]
                        IN  IF hits = {} THEN cats[c][1] = CatOther
                            ELSE \E r \in hits :
                                    /\ \A q \in hits : r <= q
                                    /\ cats[c][1] = CategorizationRules[r][1]

\* a business trip over two weeks into the heat: the laptop bag, with a keyword
\* of electronics and one of accessories, is listed under electronics, and the
\* spare glasses under accessories
C27_Witness ==
    /\ RuleBasedReturned
    /\ gen.purpose = K_business
    /\ gen.duration = 15
    /\ Cardinality(RulesHitOfRuleItem[BusinessItems[5]]) = 2
    /\ \E c \in DOMAIN gen.result.categories :
          /\ gen.result.categories[c][1] = CatElectronics
          /\ BusinessItems[5] \in Members(gen.result.categories[c][2])
    /\ \E c \in DOMAIN gen.result.categories :
          /\ gen.result.categories[c][1] = CatAccessories
          /\ Over7Items[2] \in Members(gen.result.categories[c][2])

----------------------------------------------------------------------------
(* the period the weather summary covers (SpecWeather) *)

\* the days the provider reported
AvailableDays(samples) == Cardinality({samples[i].day : i \in DOMAIN samples})

Min(a, b) == IF a <= b THEN a ELSE b

\* the number the user entered at the observed step
EnteredDuration == ParseInt(gen.text).val

\* C28: the weather summary built at the duration step covers the requested
\* period: the forecast kept is that of the first min(duration, available)
\* days, as if the service had been asked for duration days, and the
\* aggregated figures are computed from those days and from no day after the
\* trip's last.
C28_SummaryCoversTrip ==
    (Stepped /\ gen.outcome.kind = "ok") =>
        LET ud == gen.result.ud
            asked == ProcessForecast(Lisbon, gen.outcome.samples, EnteredDuration)
        IN  /\ Len(ud["weather_info"].daily)
                  = Min(EnteredDuration, AvailableDays(gen.outcome.samples))
            /\ ud["aggregated_weather"] = AggregateWeather(asked)

\* what the code does: the service is asked for its default of seven days and
\* every day it answers with goes into the summary
C28_SummaryCoversDefaultDays ==
    (Stepped /\ gen.outcome.kind = "ok") =>
        LET ud == gen.result.ud
            asked == ProcessForecast(Lisbon, gen.outcome.samples, DefaultDays)
        IN  /\ Len(ud["weather_info"].daily)
                  = Min(DefaultDays, AvailableDays(gen.outcome.samples))
            /\ ud["aggregated_weather"] = AggregateWeather(asked)

----------------------------------------------------------------------------
(* a forecast that could not be fetched (SpecWeather) *)

WeatherFailed == Stepped /\ gen.outcome.kind \in WeatherFailures

\* C29: when geocoding finds no match, the provider answers with a status
\* other than success or the network call fails, the duration step keeps the
\* session without a weather summary (no summary object is stored), tells the
\* user that the weather could not be fetched and goes on to the purpose.
C29_FailureStoresNoSummary ==
    WeatherFailed =>
        /\ ~gen.result.raised
        /\ gen.result.state = WAITING_TRIP_TYPE
        /\ gen.result.reply = "no_forecast_ask_purpose"
        /\ ~Has(gen.result.ud, "aggregated_weather")

\* what the code does: the failure comes back as a forecast without days, and
\* a summary object whose every figure is None is stored next to it
C29_FailureStoresEmptySummary ==
    WeatherFailed =>
        /\ ~gen.result.raised
        /\ gen.result.state = WAITING_TRIP_TYPE
        /\ gen.result.reply = "no_forecast_ask_purpose"
        /\ gen.result.ud["weather_info"].daily = <<>>
        /\ gen.result.ud["aggregated_weather"] =
               [descriptions |-> {}, avg_temp_min |-> None, avg_temp_max |-> None,
                max_wind |-> None, avg_precip |-> None, total_precip |-> None]

----------------------------------------------------------------------------
(* The trip conversation next to the engine: who asks the weather provider *)

\* context.user_data.get('weather_info', {}), the argument of line 376
SessionWeather(ud) == IF Has(ud, "weather_info") THEN Some(ud["weather_info"]) ELSE None

\* generate_travel_checklist on what the session of u holds once the duration
\* step is over (the arguments of handlers.py 371-377)
EngineCall(u, env_key, wx) ==
    /\ conv[u] = WAITING_TRIP_TYPE
    /\ Has(user_data[u], "duration")
    /\ LET wi == SessionWeather(user_data[u])
       IN  /\ ~WeatherQueried(wi) => wx.kind = "ok"
           /\ gen' = [phase |-> "returned", user |-> u, weather_info |-> wi,
                      queried |-> WeatherQueried(wi), env_key |-> env_key,
                      wx |-> wx.kind,
                      result |-> generate_travel_checklist(
                                     user_data[u]["destination"], P_beach,
                                     user_data[u]["duration"], wi, env_key, TRUE, wx,
                                     [kind |-> "ok", categories |-> LlmCategories],
                                     "asc")]
    /\ UNCHANGED <<now, conv, user_data, last, db, pc>>

NextFetch ==
    \/ \E u \in Users : NewTripCommand(u)
    \/ \E u \in Users : DestinationText(u, Lisbon)
    \/ \E u \in Users : StartDateText(u, D_01_03_2026)
    \/ \E u \in Users, t \in {N_5, N_0}, w \in WeatherOutcomes : DurationText(u, t, w)
    \/ \E u \in Users : CancelCommand(u)
    \/ \E u \in Users, env_key \in BOOLEAN, wx \in WeatherOutcomes :
          EngineCall(u, env_key, wx)

SpecFetch == Init /\ [][NextFetch]_vars

\* C30: within one conversation the weather provider is asked at most once,
\* at the duration step: a step that asks it is handle_duration on a session
\* that holds no forecast yet, and it leaves a forecast (that of a failed
\* fetch included) in the session and the state for the purpose; the engine,
\* handed what the session holds, never asks again.
C30_WeatherQueriedOnce ==
    [][/\ (last' # last /\ last'.wx # "none") =>
             /\ last'.handler = "handle_duration"
             /\ conv[last'.user] = WAITING_DURATION
             /\ ~Has(user_data[last'.user], "weather_info")
             /\ Has(user_data'[last'.user], "weather_info")
             /\ conv'[last'.user] = WAITING_TRIP_TYPE
       /\ gen' # gen =>
             /\ gen'.weather_info = SessionWeather(user_data[gen'.user])
             /\ gen'.weather_info # None
             /\ ~gen'.queried]_vars

\* the engine ran on a session whose fetch at the duration step had failed
C30_Witness ==
    /\ last.handler = "handle_duration"
    /\ last.wx \in WeatherFailures
    /\ gen.phase = "returned"
    /\ gen.user = last.user
    /\ gen.weather_info = Some(GetWeatherForecast(Lisbon, DefaultDays,
                                   [kind |-> last.wx, samples |-> <<>>]))
    /\ gen.result.generated_by = "rules"

----------------------------------------------------------------------------
(* get_packing_suggestions on its own, on forecasts around the thresholds *)

\* the longest forecast looked at
MaxPackingDays == 2

\* "Небольшой Дождь", a description with the Russian word capitalised
SmallRainRu ==
    <<1053, 1077, 1073, 1086, 1083, 1100, 1096, 1086, 1081, 32, 1044, 1086, 1078, 1076, 1100>>

\* "light snow", a description without any of the words
LightSnow == <<108, 105, 103, 104, 116, 32, 115, 110, 111, 119>>

\* one sample a day: a dry clear day at a temperature on either side of a
\* threshold, or a day of 15.0 degrees with precipitation on either side of
\* 0.5 mm or with a description of rain or snow
PackingDayChoices(d) ==
    {<<Sample(d, t, 20, 0, ClearSky)>> : t \in {99, 100, 199, 200, 250, 251}}
    \cup {<<Sample(d, 150, 20, r, ClearSky)>> : r \in {Missing, 5, 6}}
    \cup {<<Sample(d, 150, 20, 0, desc)>> : desc \in {LightRain, SmallRainRu, LightSnow}}

RECURSIVE PackingForecastsFrom(_, _)
PackingForecastsFrom(d, n) ==
    IF d > n THEN {<<>>}
    ELSE {day \o later : day \in PackingDayChoices(d),
                         later \in PackingForecastsFrom(d + 1, n)}

PackingForecasts == UNION {PackingForecastsFrom(1, n) : n \in 0..MaxPackingDays}

PackingCall ==
    /\ gen.phase = "forecast"
    /\ LET forecast == ProcessForecast(Lisbon, gen.samples, DefaultDays)
       IN  gen' = [phase |-> "suggested", samples |-> gen.samples,
                   forecast |-> forecast, items |-> GetPackingSuggestions(forecast)]
    /\ UNCHANGED <<now, conv, user_data, last, db, pc>>

InitPacking ==
    /\ now = ClockStart
    /\ conv = [u \in Users |-> END]
    /\ user_data = [u \in Users |-> EmptyDict]
    /\ last = Handled(0, "init", "", <<>>, "none", "none", "none")
    /\ db = EmptyDb
    /\ gen \in {[phase |-> "forecast", samples |-> f] : f \in PackingForecasts}
    /\ pc = Idle

NextPacking == PackingCall

SpecPacking == InitPacking /\ [][NextPacking]_vars

Suggested == gen.phase = "suggested"

\* the lowest and the highest temperature among the samples
LowestTemp == MinSeq([i \in DOMAIN gen.samples |-> gen.samples[i].temp])

HighestTemp == MaxSeq([i \in DOMAIN gen.samples |-> gen.samples[i].temp])

\* C31: for every forecast with temperature data the weather items hold the
\* cold layer exactly when the lowest temperature is below 10.0 degrees, the
\* light layer exactly when it is from 10.0 up to, not including, 20.0 degrees,
\* and the sun and heat items exactly when the highest temperature is over
\* 25.0 degrees; the cold and the light layer never come together, and the
\* baseline is there in every case.
C31_TemperatureBands ==
    (Suggested /\ gen.samples # <<>>) =>
        LET items == Members(gen.items)
            Whole(group) == Members(group) \subseteq items
            Some_(group) == Members(group) \cap items # {}
        IN  /\ Whole(ColdItems) <=> LowestTemp < 100
            /\ Some_(ColdItems) <=> LowestTemp < 100
            /\ Whole(MildItems) <=> (LowestTemp >= 100 /\ LowestTemp < 200)
            /\ Some_(MildItems) <=> (LowestTemp >= 100 /\ LowestTemp < 200)
            /\ Whole(HotItems) <=> HighestTemp > 250
            /\ Some_(HotItems) <=> HighestTemp > 250
            /\ ~(Some_(ColdItems) /\ Some_(MildItems))
            /\ Whole(BaselineItems)

\* a day of exactly 10.0 degrees and a day of 25.1: the light layer and the
\* heat items, no cold layer
C31_Witness ==
    /\ Suggested
    /\ gen.samples # <<>>
    /\ LowestTemp = 100
    /\ HighestTemp = 251
    /\ Members(MildItems) \cup Members(HotItems) \subseteq Members(gen.items)
    /\ Members(ColdItems) \cap Members(gen.items) = {}

\* a day of the processed forecast is a rainy one
RainyDay(day) ==
    \/ \E d \in day.description :
          \E w \in DOMAIN RainWords : Contains(RainWords[w], LowerText(d))
    \/ day.precipitation > 5

\* C32: the umbrella, the raincoat and the waterproof footwear are among the
\* weather items if and only if the description of some forecast day holds
\* one of the rain words or the precipitation of some day is over 0.5 mm;
\* with no such day none of them is there.
C32_RainItems ==
    Suggested =>
        LET days == gen.forecast.daily
            rainy == \E i \in DOMAIN days : RainyDay(days[i])
        IN  /\ rainy => Members(RainItems) \subseteq Members(gen.items)
            /\ ~rainy => Members(RainItems) \cap Members(gen.items) = {}

\* a single dry-worded day with 0.6 mm of precipitation, and the three items
C32_Witness ==
    /\ Suggested
    /\ Len(gen.samples) = 1
    /\ gen.samples[1].desc = ClearSky
    /\ gen.samples[1].rain = 6
    /\ Members(RainItems) \subseteq Members(gen.items)

\* a day of exactly 0.5 mm, or of snow in words only, brings none of them
C32_ThresholdExclusive ==
    (Suggested /\ Len(gen.samples) = 1
        /\ (gen.samples[1].rain = 5 \/ gen.samples[1].desc = LightSnow))
        => Members(RainItems) \cap Members(gen.items) = {}

----------------------------------------------------------------------------
(* the tag of the generation method (SpecGen) *)

\* the answers of the model that carry a mapping with at least one category
ValidMappingKinds == {"ok", "ok_no_items"}

\* C33: the result is tagged "llm" exactly when the key is configured (when
\* the client was built and when the call is made) and the model answered with
\* a valid mapping of at least one category, and "rules" in every other case;
\* without the key no request goes to the model.
C33_MethodTag ==
    Returned =>
        /\ ~gen.result.raised
        /\ gen.result.generated_by \in {"llm", "rules"}
        /\ gen.result.generated_by = "llm"
              <=> (gen.env_key /\ gen.client_key /\ gen.llm \in ValidMappingKinds)
        /\ ~gen.env_key => ~gen.requested
        /\ ~gen.client_key => ~gen.requested

\* no key in the environment while the client holds one and the model would
\* have answered: the rules made the list and nothing was asked
C33_Witness ==
    /\ Returned
    /\ ~gen.env_key
    /\ gen.client_key
    /\ gen.llm = "ok"
    /\ gen.result.generated_by = "rules"
    /\ ~gen.requested

----------------------------------------------------------------------------
(* the category the purpose step stores (SpecPurpose) *)

\* the category the session of the classifying user holds
StoredTripType == user_data[gen.user]["trip_type"]

\* C34: after the purpose step, whatever the classifier answered (a match, a
\* new category, an error result, null fields), the category stored in the
\* session is a name, not null, that the TripPurpose catalog holds (a base
\* entry or the one just added), "other" when the classification failed, and
\* the raw purpose stored is the text the user entered.
C34_StoredCategoryInCatalog ==
    Classified =>
        /\ StoredTripType # None
        /\ \A name \in StoredTripType : PurposeByName(db.purposes, name) # {}
        /\ ClassifyFailed => StoredTripType = Some(K_other)
        /\ user_data[gen.user]["original_trip_purpose"] = P_beach

\* what the code keeps: after a failure the category is "other", which the
\* catalog holds; a proposed name is in the catalog; the raw text is stored
C34_FailureAndProposalInCatalog ==
    Classified =>
        /\ ClassifyFailed =>
              /\ StoredTripType = Some(K_other)
              /\ PurposeByName(db.purposes, K_other) # {}
        /\ (gen.result.is_new_category /\ gen.result.new_category_name # None) =>
              /\ StoredTripType = gen.result.new_category_name
              /\ \A name \in StoredTripType : PurposeByName(db.purposes, name) # {}
        /\ user_data[gen.user]["original_trip_purpose"] = P_beach

----------------------------------------------------------------------------
(* Two purpose steps that propose a new category, step by step: the lookup of
   line 315 and the insert of lines 318-324 as steps of their own *)

RaceNames == {K_diving, Diving_cap}

\* a variant in which the application hands out updates concurrently
\* (concurrent_updates switched on)
UpdatesConcurrent(u) == TRUE

\* main.py, line 259: the Application is built without concurrent_updates, so
\* the next update is taken up only when the handler of the last one has
\* returned: no purpose step of another user is under way
UpdatesOneByOne(u) == \A v \in Users \ {u} : gen.at[v] \in {"idle", "done"}

\* lines 304-312: the classifier proposed new_name
ProposeNew(u, name) ==
    /\ gen.at[u] \in {"idle", "done"}
    /\ UpdatesOneByOne(u)
    /\ gen' = [gen EXCEPT !.at[u] = "proposed", !.name[u] = name,
                          !.existing[u] = FALSE]
    /\ UNCHANGED <<now, conv, user_data, last, db, pc>>

\* line 315: existing = query(TripPurpose).filter_by(name=new_name).first()
LookUpExisting(u) ==
    /\ gen.at[u] = "proposed"
    /\ gen' = [gen EXCEPT !.at[u] = "looked_up",
                          !.existing[u] = PurposeByName(db.purposes, gen.name[u]) # {}]
    /\ UNCHANGED <<now, conv, user_data, last, db, pc>>

\* lines 316-334: the row is added and committed when none was found; the name
\* is the category of the trip either way
AddIfAbsent(u) ==
    /\ gen.at[u] = "looked_up"
    /\ db' = [db EXCEPT !.purposes =
                 IF gen.existing[u] THEN @
                 ELSE @ \cup {PurposeRow(NextId(@), gen.name[u], FALSE)}]
    /\ user_data' = [user_data EXCEPT ![u] = Put(@, "trip_type", Some(gen.name[u]))]
    /\ gen' = [gen EXCEPT !.at[u] = "done"]
    /\ UNCHANGED <<now, conv, last, pc>>

\* the catalog is seeded, every user is at the purpose step
InitRace ==
    /\ now = ClockStart
    /\ conv = [u \in Users |-> WAITING_TRIP_TYPE]
    /\ user_data = [u \in Users |-> TripSession]
    /\ last = StoreOp(0, "init", "", 0, "none", None)
    /\ db = [purposes |-> init_trip_purposes({})]
    /\ gen = [phase |-> "race", at |-> [u \in Users |-> "idle"],
              name |-> [u \in Users |-> K_other],
              existing |-> [u \in Users |-> FALSE]]
    /\ pc = Idle

NextRace ==
    \/ \E u \in Users, name \in RaceNames : ProposeNew(u, name)
    \/ \E u \in Users : LookUpExisting(u)
    \/ \E u \in Users : AddIfAbsent(u)

SpecRace == InitRace /\ [][NextRace]_vars

----------------------------------------------------------------------------
(* checklist_generator.py, lines 49-90: the previous lists handed to the model *)

\* bound: how many checklist rows the stores looked at hold
MaxStored == 4

\* limit(3), line 67
PreviousLimit == 3

\* the rows of the largest keys, at most n of them (order_by(created_at.desc())
\* .limit(n): created_at is the time of the insert, so it grows with the key)
RECURSIVE MostRecent(_, _)
MostRecent(rows, n) ==
    IF n = 0 \/ rows = {} THEN {}
    ELSE LET top == CHOOSE r \in rows : \A q \in rows : q.id <= r.id
         IN  {top} \cup MostRecent(rows \ {top}, n - 1)

\* lines 64-85: the user is looked up with telegram_id=user_id, the checklists
\* with owner_id=user.id; the ones with trip_metadata go into previous_lists
PreviousLists(d, user_id) ==
    LET found == UserByTelegram(d, user_id)
    IN  IF found = {} THEN {}
        ELSE LET user == CHOOSE r \in found : TRUE
                 owned == {c \in d.checklists : c.owner_id = user.id}
             IN  {c.id : c \in MostRecent(owned, PreviousLimit)}

\* handlers.py, lines 355-377: user_db is the row of the acting user,
\* user_id=user_db.id is what the generator is handed
PersonalizationCall(u) ==
    /\ gen.phase = "idle"
    /\ UserByTelegram(db, u) # {}
    /\ LET user_db == CHOOSE r \in UserByTelegram(db, u) : TRUE
       IN  gen' = [phase |-> "context", user |-> u, user_id |-> user_db.id,
                   previous_lists |-> PreviousLists(db, user_db.id)]
    /\ UNCHANGED <<now, conv, user_data, last, db, pc>>

\* the checklists of a store whose rows were added by the given owners, in
\* that order
StoredFor(owners) ==
    {ChecklistRow(k, TripTitle(TripSession), TripMetadata(TripSession), owners[k])
        : k \in DOMAIN owners}

\* both users have met the bot, in either order, and have completed trips
ContextStores ==
    {[users |-> {UserRow(1, first), UserRow(2, 3 - first)},
      checklists |-> StoredFor(owners), items |-> {}] :
        first \in Users,
        owners \in UNION {[1..k -> {1, 2}] : k \in 0..MaxStored}}

InitContext ==
    /\ now = ClockStart
    /\ conv = [u \in Users |-> WAITING_TRIP_TYPE]
    /\ user_data = [u \in Users |-> TripSession]
    /\ last = StoreOp(0, "init", "", 0, "none", None)
    /\ db \in ContextStores
    /\ gen = NoCall
    /\ pc = Idle

NextContext == \E u \in Users : PersonalizationCall(u)

SpecContext == InitContext /\ [][NextContext]_vars

\* the checklists of the user who runs the conversation
OwnChecklists ==
    {c \in db.checklists : \E r \in UserByTelegram(db, gen.user) : c.owner_id = r.id}

\* C36: the previous lists given to the model are the min(3, n) most recently
\* created checklists of the user who runs the conversation, n being the
\* number of that user's stored checklists: none of another user, and at
\* least one whenever that user has one.
C36_ContextIsOwnRecent ==
    gen.phase = "context" =>
        /\ gen.previous_lists = {c.id : c \in MostRecent(OwnChecklists, 3)}
        /\ gen.previous_lists \subseteq {c.id : c \in OwnChecklists}
        /\ OwnChecklists # {} => gen.previous_lists # {}

\* what the code does: the lists are those of the user whose telegram_id is
\* the key of the acting user's row, never more than three, the most recent
C36_ContextOfTelegramIdLookup ==
    gen.phase = "context" =>
        LET taken == {c \in db.checklists :
                         \E r \in UserByTelegram(db, gen.user_id) : c.owner_id = r.id}
        IN  /\ gen.previous_lists = {c.id : c \in MostRecent(taken, 3)}
            /\ Cardinality(gen.previous_lists) =
                   (IF Cardinality(taken) < 3 THEN Cardinality(taken) ELSE 3)

----------------------------------------------------------------------------
(* the owner of a stored checklist (SpecPersist) *)

\* C37: the owner_id of every stored checklist is the key of a stored User
\* row, after any sequence of conversations: the row of the user is found or
\* added before the checklist is written, and nothing removes a user.
C37_OwnerResolves ==
    \A c \in db.checklists : \E r \in db.users : r.id = c.owner_id

\* no step takes a user row away or changes one
C37_UsersKept == [][db.users \subseteq db'.users]_vars

\* user 2 met the bot first and holds row 1; their checklist names row 1, while
\* no row has the key 2
C37_Witness ==
    /\ db.users = {UserRow(1, 2)}
    /\ \E c \in db.checklists : c.owner_id = 1

----------------------------------------------------------------------------
(* the order column (SpecStore; the generated rows: SpecPersist) *)

\* two rows of one checklist and one category
SameCategory(a, b) == a.checklist_id = b.checklist_id /\ a.category = b.category

\* C38: after any sequence of generation, add-item and delete-item
\* operations the order values of the items of one checklist and category
\* follow the sequence of the inserts: they differ pairwise, and a row added
\* later (it has the larger key) has a larger order than every row added
\* before it that is still there.
C38_OrderFollowsInsertion ==
    \A a, b \in db.items :
        (SameCategory(a, b) /\ a.id < b.id) => a.order < b.order

\* what the code keeps: a row written by add-item has an order of at least 1,
\* the number of rows its category held plus one; a generated row has order 0
C38_OrderIsCountPlusOne ==
    [][\A i \in db'.items \ db.items :
          \/ i.order = 0 /\ last'.name = "save_items"
          \/ /\ last'.name = "add_item"
             /\ i.order = 1 + Cardinality({j \in db.items : SameCategory(i, j)})
          \/ i.order = 1 /\ last'.name = "add_category"]_vars

----------------------------------------------------------------------------
(* the web delete-category operation (SpecStore) *)

\* C39: the web delete-category operation on checklist c and a category name
\* removes every item of c whose category is that name and leaves every
\* other item as it was (the items of c in other categories, the items of
\* other checklists); when c has no item of that category nothing changes
\* and the answer is the error notification.
C39_DeleteCategoryExact ==
    [][\A v \in Users, id \in ChecklistIds, category \in FormCategories :
          WebDeleteCategory(v, id, category) =>
              LET named == {i \in db.items : i.checklist_id = id /\ i.category = category}
              IN  /\ db'.items = db.items \ named
                  /\ db'.checklists = db.checklists /\ db'.users = db.users
                  /\ named = {} => (db' = db /\ last'.reply = "category_not_found")
                  /\ named # {} => last'.reply = "redirect_ok"]_vars

\* a category was deleted and an item of another category is still there
C39_Witness ==
    /\ last.kind = "web" /\ last.name = "delete_category"
    /\ last.reply = "redirect_ok"
    /\ \E i \in db.items : i.checklist_id = last.checklist

----------------------------------------------------------------------------
(* the edit conversation next to the trip conversation (SpecFlows): both are
   registered in one handler group, the trip conversation first, and both
   handlers read and write the one session of the user *)

WAITING_NEW_ITEM_NAME == "WAITING_NEW_ITEM_NAME"

\* dict.pop(k, None)
Pop(d, k) == [x \in (DOMAIN d) \ {k} |-> d[x]]

\* str.split(sep, maxsplit)
RECURSIVE Split(_, _, _)
Split(t, sep, maxsplit) ==
    LET at == {i \in DOMAIN t : t[i] = sep}
    IN  IF maxsplit = 0 \/ at = {} THEN <<t>>
        ELSE LET k == CHOOSE i \in at : \A j \in at : i <= j
             IN  <<SubSeq(t, 1, k - 1)>> \o Split(SubSeq(t, k + 1, Len(t)), sep, maxsplit - 1)

\* "add_to_category_"
AddToCategoryPrefix ==
    <<97, 100, 100, 95, 116, 111, 95, 99, 97, 116, 101, 103, 111, 114, 121, 95>>

\* the callback data of a category button of handle_add_item
AddToCategoryData(id, category) == AddToCategoryPrefix \o IntToText(id) \o <<95>> \o category

\* `_, checklist_id, category = query.data.split('_', 2)`, then
\* int(checklist_id); the session is written after both
handle_add_to_category(ud, data) ==
    LET parts == Split(data, 95, 2)
    IN  IF Len(parts) # 3 \/ ~ParseInt(parts[2]).ok
        THEN Raised(ud, "ValueError")
        ELSE Result(WAITING_NEW_ITEM_NAME,
                    Put(Put(ud, "add_item_to_checklist", ParseInt(parts[2]).val),
                        "add_item_category", parts[3]),
                    "ask_item_name")

\* the answer of handle_new_item_name: the handler result and the item table
ItemsResult(res, items) == [res |-> res, items |-> items]

handle_new_item_name(ud, d, telegram_id, text) ==
    LET item_name == Strip(text)
        missing == \/ ~Has(ud, "add_item_to_checklist") \/ ~Has(ud, "add_item_category")
                   \/ ud["add_item_to_checklist"] = 0 \/ ud["add_item_category"] = <<>>
    IN  IF missing THEN ItemsResult(Result(END, ud, "add_item_error"), d.items)
        ELSE LET checklist_id == ud["add_item_to_checklist"]
                 category == ud["add_item_category"]
                 found == ChecklistById(d, checklist_id)
                 max_order == Cardinality({i \in ItemsOf(d, checklist_id) : i.category = category})
             IN  IF found = {} THEN ItemsResult(Result(END, ud, "list_not_found"), d.items)
                 ELSE IF NoAccess(d, telegram_id, CHOOSE c \in found : TRUE)
                 THEN ItemsResult(Result(END, ud, "no_access"), d.items)
                 ELSE ItemsResult(
                          Result(END, Pop(Pop(ud, "add_item_to_checklist"), "add_item_category"),
                                 "item_added"),
                          d.items \cup {ItemRow(NextId(d.items), item_name, category,
                                                checklist_id, max_order + 1)})

\* the state of the edit conversation of each user and the button the user
\* tapped last and has not yet named an item for
FlowsStart == [phase |-> "flows", edit |-> [u \in Users |-> END],
               tapped |-> [u \in Users |-> None]]

NameTexts == {Zont}

\* a category button: the entry point of the edit conversation while it has no
\* state; otherwise the update reaches button_handler, which calls the handler
\* and drops the state it returns
CategoryButton(u, id, category) ==
    /\ gen.phase = "flows"
    /\ UNCHANGED <<now, conv, db, pc>>
    /\ LET res == handle_add_to_category(user_data[u], AddToCategoryData(id, category))
       IN  /\ user_data' = [user_data EXCEPT ![u] = res.ud]
           /\ gen' = [gen EXCEPT
                        !.edit[u] = IF @ = END THEN NewState(@, res) ELSE @,
                        !.tapped[u] = Some([checklist_id |-> id, category |-> category])]
           /\ last' = Handled(u, "callback", "add_to_category", <<>>,
                              "handle_add_to_category", res.reply, "none")

\* a text the trip conversation does not take (it has no state, or the state
\* WAITING_TRIP_TYPE that has no text handler): the edit conversation takes it
\* in WAITING_NEW_ITEM_NAME, and no handler otherwise
ItemNameText(u, t) ==
    /\ gen.phase = "flows"
    /\ conv[u] \in {END, WAITING_TRIP_TYPE}
    /\ UNCHANGED <<now, conv, pc>>
    /\ IF gen.edit[u] = WAITING_NEW_ITEM_NAME
       THEN LET out == handle_new_item_name(user_data[u], db, u, t)
            IN  /\ user_data' = [user_data EXCEPT ![u] = out.res.ud]
                /\ db' = [db EXCEPT !.items = out.items]
                /\ gen' = [gen EXCEPT !.edit[u] = NewState(@, out.res), !.tapped[u] = None]
                /\ last' = Handled(u, "text", "", t, "handle_new_item_name",
                                   out.res.reply, "none")
       ELSE /\ UNCHANGED <<user_data, db>>
            /\ gen' = [gen EXCEPT !.tapped[u] = None]
            /\ last' = Handled(u, "text", "", t, "none", "none", "none")

InitFlows ==
    /\ now = ClockStart
    /\ conv = [u \in Users |-> END]
    /\ user_data = [u \in Users |-> EmptyDict]
    /\ last = Handled(0, "init", "", <<>>, "none", "none", "none")
    /\ db = SeedDb
    /\ gen = FlowsStart
    /\ pc = Idle

NextFlows ==
    \/ \E u \in Users : NewTripCommand(u)
    \/ \E u \in Users, t \in Destinations : DestinationText(u, t)
    \/ \E u \in Users : StartDateText(u, D_01_03_2026)
    \/ \E u \in Users, w \in WeatherOutcomes : DurationText(u, N_5, w)
    \/ \E u \in Users : CancelCommand(u)
    \/ \E u \in Users, id \in ChecklistIds : CategoryButton(u, id, CatOther)
    \/ \E u \in Users, t \in NameTexts : ItemNameText(u, t)

SpecFlows == InitFlows /\ [][NextFlows]_vars

\* the user owns a checklist with this key
OwnsChecklist(u, id) ==
    \E c \in ChecklistById(db, id) : ~NoAccess(db, u, c)

C40_NoPendingContext ==
    \A u \in Users :
        /\ ~Has(user_data[u], "add_item_to_checklist")
        /\ ~Has(user_data[u], "add_item_category")
        /\ gen.edit[u] = END

\* what the code keeps: an add-item step (category button, item name) leaves
\* the session and the state of the trip conversation as they are
C40_AddItemStepKeepsTrip ==
    [][(\/ last'.name = "add_to_category"
        \/ last'.handler \in {"handle_new_item_name", "none"} /\ last'.kind = "text")
         => (user_data' = user_data /\ conv' = conv)]_vars

\* a user in the middle of the trip flow has tapped a category button
C40_TappedDuringTrip ==
    \E u \in Users :
        /\ gen.tapped[u] # None /\ conv[u] = WAITING_DURATION
        /\ \E chosen \in gen.tapped[u] : OwnsChecklist(u, chosen.checklist_id)

====
